---------------------------- MODULE Spec2Model ----------------------------
(***************************************************************************)
(* A model of the numerical core of FJML: the Tensor type (src/tensor.cpp), *)
(* the matrix algebra (src/linalg.cpp), the Dense layer (src/dense.cpp),    *)
(* the MLP (src/mlp.cpp) and the Adam optimizer (src/adam.cpp).             *)
(*                                                                         *)
(* Numbers are the integer-valued floats: every float the model handles is *)
(* an integer small enough to be exact in IEEE single precision.  A C++    *)
(* vector v is the sequence with v[i] (C++) = v[i + 1] (here).              *)
(***************************************************************************)
EXTENDS Integers, Sequences, FiniteSets, TLC

VARIABLES
    t,      \* the Tensor object the tensor operations act on
    last,   \* the outcome of the most recent tensor operation
    mm,     \* the outcome of the most recent matrix_multiply call
    dl,     \* the Dense layer and the outcome of its most recent call
    gd,     \* the MLP and the position of grad_descent in it
    ad,     \* the optimizer objects and the outcome of the most recent call on one
    net,    \* the layer list of an MLP and the optimizer objects its layers point to
    tr,     \* the position of MLP::train and what it has copied so far
    sm,     \* the input and the outcome of the most recent Softmax::apply call
    ls,     \* a loss function, its arguments and the outcomes of the calls made on it
    sv,     \* the layers an MLP saves, the file written and the layers loaded from it
    am,     \* the argument, the axis and the outcome of the most recent argmax call
    par,    \* a parallel-for loop: the result buffer and the position of each iteration
    cu      \* the cuBLAS handle, its flag, and the calls made on accelerator tensors

vars == <<t, last, mm, dl, gd, ad, net, tr, sm, ls, sv, am, par, cu>>

-----------------------------------------------------------------------------
(* Bounds of the model *)

MaxDim == 2       \* the largest dimension size of a shape handed to an operation
MaxElems == 4     \* the longest vector handed to Tensor::array
MaxVal == 4       \* in-place arithmetic keeps |element| <= MaxVal

-----------------------------------------------------------------------------
(* Sequences of integers *)

\* std::accumulate(shape.begin(), shape.end(), 1, std::multiplies<int>())
RECURSIVE Accumulate(_, _, _)
Accumulate(shape, i, acc) ==
    IF i > Len(shape) THEN acc ELSE Accumulate(shape, i + 1, acc * shape[i])

\* The loop of the constructor and of reshape: data_size = shape; then from the
\* last but one element down, data_size[i] *= data_size[i + 1]; then push_back(1).
RECURSIVE SuffixProduct(_, _)
SuffixProduct(shape, i) ==
    IF i > Len(shape) THEN 1 ELSE shape[i] * SuffixProduct(shape, i + 1)

DataSize(shape) == [i \in 1..(Len(shape) + 1) |-> SuffixProduct(shape, i)]

\* malloc(n * sizeof(float)): n floats for n > 0; for n = 0 no float; for n < 0
\* the size converts to a size_t beyond any memory, malloc returns NULL.
Malloc(n, init) == [i \in 1..(IF n > 0 THEN n ELSE 0) |-> init]

-----------------------------------------------------------------------------
(* The Tensor object *)

NoTensor == [shape |-> <<>>, data_size |-> <<>>, data |-> <<>>]

Exists(x) == Len(x.data_size) > 0

\* Tensor::Tensor(const std::vector<int>& shape, float init, Device device), CPU
TensorOf(shape, init) ==
    [shape |-> shape, data_size |-> DataSize(shape),
     data |-> Malloc(DataSize(shape)[1], init)]

\* Tensor::array(const std::vector<float>& vec, Device device)
ArrayOf(vec) ==
    [TensorOf(<<Len(vec)>>, 0) EXCEPT !.data = vec]

\* The guard of Tensor::reshape: the throw condition.
ReshapeFails(x, shape) == x.data_size[1] # Accumulate(shape, 1, 1)

\* A reshape that stores the new shape and keeps the old data_size.
ReshapeOfKeepingStrides(x, shape) == [x EXCEPT !.shape = shape]

\* Tensor::reshape on success: shape and data_size rewritten, data untouched.
ReshapeOf(x, shape) ==
    [x EXCEPT !.shape = shape, !.data_size = DataSize(shape)]

\* The flat offset computed by Tensor::at / operator[]: i += index[j] * data_size[j + 1]
RECURSIVE Offset(_, _, _)
Offset(x, index, j) ==
    IF j > Len(index) THEN 0
    ELSE index[j] * x.data_size[j + 1] + Offset(x, index, j + 1)

\* The first throw of Tensor::at(const std::vector<int>&), or "ok".
AtStatus(x, index) ==
    IF Len(index) # Len(x.shape) THEN "invalid_argument"
    ELSE IF \E j \in 1..Len(index) : index[j] >= x.shape[j] THEN "out_of_range"
    ELSE "ok"

\* The throw condition shared by the two-tensor operators of src/tensor.cpp.
SizesDiffer(x, other) == x.data_size[1] # other.data_size[1]

\* The scalar function of each two-tensor operation.
ElemOp(op, x, y) ==
    CASE op \in {"+", "+="} -> x + y
      [] op \in {"-", "-="} -> x - y
      [] op \in {"*", "*="} -> x * y
      [] op \in {"/", "/="} -> x \div y
      [] op \in {"apply_function", "calc_function"} -> 2 * x - y

\* for (int i = 0; i < data_size[0]; i++) result.data[i] = f(data[i], other.data[i])
Elementwise(op, x, other) ==
    [i \in 1..(IF x.data_size[1] > 0 THEN x.data_size[1] ELSE 0) |->
        ElemOp(op, x.data[i], other.data[i])]

-----------------------------------------------------------------------------
(* Inputs *)

\* Shapes and indices of one and of two dimensions; a size or an index component
\* may be zero or negative, which an int allows.
Dims == (0 - 1)..MaxDim
ShapeInputs == {<<a>> : a \in Dims} \cup {<<a, b>> : a \in Dims, b \in Dims}
PositiveShapes == {s \in ShapeInputs : \A i \in 1..Len(s) : s[i] > 0}
IndexInputs == ShapeInputs
ArrayInputs == {[i \in 1..n |-> i + k] : n \in 1..MaxElems, k \in 0..1}
\* The right-hand operands: tensors built by the constructor.
Operands == {TensorOf(s, c) : s \in PositiveShapes, c \in 1..2}

NoResult ==
    [op |-> "none", status |-> "none", before |-> NoTensor, shape |-> <<>>,
     index |-> <<>>, other |-> NoTensor, result |-> NoTensor, offset |-> 0]

NoProduct == [a |-> NoTensor, b |-> NoTensor, status |-> "none", result |-> NoTensor]

\* No optimizer object: the value of the optimizer state where none is modelled.
NoOptimizers ==
    [heap |-> <<>>, before |-> <<>>, op |-> "none", target |-> 0, calls |-> 0,
     params |-> NoTensor, grads |-> NoTensor, result |-> NoTensor]

\* No MLP: the value of the network state where none is modelled.
NoNetwork == [heap |-> <<>>, layers |-> <<>>, templates |-> {}, op |-> "none", calls |-> 0]

\* No call of train: the value of the training state where none is modelled.
NoTraining ==
    [pc |-> "idle", x_train |-> NoTensor, y_train |-> NoTensor, epochs |-> 0,
     batch_size |-> 0, indices |-> <<>>, i |-> 0, j |-> 0, batches |-> <<>>,
     passes |-> <<>>, stray |-> 0]

\* No call of Softmax::apply yet.
NoSoftmax == [input |-> NoTensor, status |-> "none", exponents |-> NoTensor]

\* No call made: the outcome of a call of a loss function that has not run.
NotCalled == [status |-> "none", value |-> <<>>]

\* No loss function: the value of the loss state where none is modelled.
NoLoss ==
    [fn |-> "none", label |-> NoTensor, pred |-> NoTensor, raised |-> NoTensor,
     loss |-> [which \in {"pred", "raised"} |-> NotCalled],
     grad |-> [which \in {"pred", "raised"} |-> NotCalled]]

\* No model file: the value of the file state where none is modelled.
NoFile == [layers |-> <<>>, file |-> <<>>, status |-> "none", loaded |-> <<>>]
\* No loop: the value of the loop state where no parallel loop is modelled.
NoLoop ==
    [op |-> "none", a |-> NoTensor, b |-> NoTensor, bias |-> NoTensor,
     rows |-> 0, cols |-> 0, data |-> <<>>,
     pc |-> <<>>, reg |-> <<>>, reads |-> <<>>, writes |-> <<>>]
NoArgmax == [a |-> NoTensor, axis |-> 0, omitted |-> FALSE, status |-> "none", result |-> NoTensor]
\* No handle: cublasHandle_t handle; bool handle_initialized = false; (tensor.cpp)
\* A handle is the number of the cublasCreate call that made it, 0 the null
\* pointer of the zero-initialised global.
NoHandle == [handle |-> 0, handle_initialized |-> FALSE, created |-> 0, log |-> <<>>]

\* No layer: the value of the Dense state where no layer is modelled.
NoLayer ==
    [input_size |-> 0, output_size |-> 0, weights |-> NoTensor, bias |-> NoTensor,
     activ |-> "linear",
     w_opt |-> [alpha |-> 0, applied |-> 0], b_opt |-> [alpha |-> 0, applied |-> 0]]

\* A Dense layer on which no operation has run yet.
Idle(layer) ==
    [layer |-> layer, before |-> layer, op |-> "none", status |-> "none",
     input |-> NoTensor, output |-> NoTensor,
     input_vals |-> <<>>, output_grad |-> <<>>, outputs |-> <<>>,
     w_grad |-> NoTensor, b_grad |-> NoTensor]

\* An MLP of these layers on which grad_descent has not been called yet.
NoDescent(layers) ==
    [layers |-> layers, start |-> layers, pc |-> "idle", i |-> 0,
     x_train |-> NoTensor, y_train |-> NoTensor,
     run_res |-> <<>>, out_grad |-> NoTensor, log |-> <<>>]

-----------------------------------------------------------------------------
(* The tensor operations *)

\* Tensor::Tensor(shape, init, device): nothing is checked, nothing is thrown.
Construct ==
    \E shape \in ShapeInputs, init \in 0..1 :
        /\ t' = TensorOf(shape, init)
        /\ last' = [NoResult EXCEPT !.op = "construct", !.status = "ok", !.shape = shape]
        /\ UNCHANGED <<mm, dl, gd, ad, net, tr, sm, ls, sv, am, par, cu>>

\* Tensor::array(vec)
Array ==
    \E vec \in ArrayInputs :
        /\ t' = ArrayOf(vec)
        /\ last' = [NoResult EXCEPT !.op = "array", !.status = "ok",
                                    !.shape = <<Len(vec)>>]
        /\ UNCHANGED <<mm, dl, gd, ad, net, tr, sm, ls, sv, am, par, cu>>

\* Tensor::reshape(shape)
Reshape ==
    \E shape \in ShapeInputs :
        /\ Exists(t)
        /\ IF ReshapeFails(t, shape)
           THEN /\ t' = t
                /\ last' = [NoResult EXCEPT !.op = "reshape", !.status = "invalid_argument",
                                            !.before = t, !.shape = shape]
           ELSE /\ t' = ReshapeOf(t, shape)
                /\ last' = [NoResult EXCEPT !.op = "reshape", !.status = "ok",
                                            !.before = t, !.shape = shape]
        /\ UNCHANGED <<mm, dl, gd, ad, net, tr, sm, ls, sv, am, par, cu>>

\* Tensor::at(const std::vector<int>& index) and operator[]: the element read.
At ==
    \E index \in IndexInputs :
        /\ Exists(t)
        /\ t' = t
        /\ last' = [NoResult EXCEPT !.op = "at", !.status = AtStatus(t, index),
                                    !.before = t, !.index = index,
                                    !.offset = IF AtStatus(t, index) = "ok"
                                               THEN Offset(t, index, 1) ELSE 0]
        /\ UNCHANGED <<mm, dl, gd, ad, net, tr, sm, ls, sv, am, par, cu>>

\* The quotients the model's numbers can hold.
Divisible(op, x, other) ==
    op \in {"/", "/="} =>
        \A i \in 1..Len(x.data) : other.data[i] # 0 /\ x.data[i] % other.data[i] = 0

InRange(data) == \A i \in 1..Len(data) : data[i] >= 0 - MaxVal /\ data[i] <= MaxVal

\* Tensor::operator+, -, *, / and calc_function(f, other): a new tensor of this shape.
Binary(op) ==
    \E other \in Operands :
        /\ Exists(t)
        /\ t' = t
        /\ IF SizesDiffer(t, other)
           THEN last' = [NoResult EXCEPT !.op = op, !.status = "invalid_argument",
                                         !.before = t, !.other = other]
           ELSE /\ Divisible(op, t, other)
                /\ last' = [NoResult EXCEPT !.op = op, !.status = "ok", !.before = t,
                                !.other = other,
                                !.result = [TensorOf(t.shape, 0) EXCEPT
                                                !.data = Elementwise(op, t, other)]]
        /\ UNCHANGED <<mm, dl, gd, ad, net, tr, sm, ls, sv, am, par, cu>>

\* Tensor::operator+=, -=, *=, /= and apply_function(f, other): this tensor's data.
InPlace(op) ==
    \E other \in Operands :
        /\ Exists(t)
        /\ IF SizesDiffer(t, other)
           THEN /\ t' = t
                /\ last' = [NoResult EXCEPT !.op = op, !.status = "invalid_argument",
                                            !.before = t, !.other = other]
           ELSE /\ Divisible(op, t, other)
                /\ InRange(Elementwise(op, t, other))
                /\ t' = [t EXCEPT !.data = Elementwise(op, t, other)]
                /\ last' = [NoResult EXCEPT !.op = op, !.status = "ok", !.before = t,
                                            !.other = other]
        /\ UNCHANGED <<mm, dl, gd, ad, net, tr, sm, ls, sv, am, par, cu>>

Add == Binary("+")
AddAssign == InPlace("+=")
Subtract == Binary("-")
SubtractAssign == InPlace("-=")
Multiply == Binary("*")
MultiplyAssign == InPlace("*=")
Divide == Binary("/")
DivideAssign == InPlace("/=")
CalcFunction == Binary("calc_function")
ApplyFunction == InPlace("apply_function")

TensorInit ==
    /\ t = NoTensor
    /\ cu = NoHandle
    /\ par = NoLoop
    /\ am = NoArgmax
    /\ sv = NoFile
    /\ ls = NoLoss
    /\ sm = NoSoftmax
    /\ tr = NoTraining
    /\ net = NoNetwork
    /\ ad = NoOptimizers
    /\ last = NoResult
    /\ mm = NoProduct
    /\ dl = Idle(NoLayer)
    /\ gd = NoDescent(<<>>)

TensorNext ==
    \/ Construct
    \/ Array
    \/ Reshape
    \/ At

SpecTensor == TensorInit /\ [][TensorNext]_vars

ArithNext ==
    \/ Construct
    \/ Array
    \/ Reshape
    \/ Add
    \/ AddAssign
    \/ Subtract
    \/ SubtractAssign
    \/ Multiply
    \/ MultiplyAssign
    \/ Divide
    \/ DivideAssign
    \/ CalcFunction
    \/ ApplyFunction

SpecArith == TensorInit /\ [][ArithNext]_vars

-----------------------------------------------------------------------------
(* LinAlg::matrix_multiply (src/linalg.cpp), the CPU path *)

Dim(x) == Len(x.shape)

RECURSIVE SumSeq(_, _)
SumSeq(seq, k) == IF k > Len(seq) THEN 0 ELSE seq[k] + SumSeq(seq, k + 1)

\* Tensor result({a.shape[0], b.shape[0]}); result.data[i * b.shape[0] + j] = a.data[i] * b.data[j]
OuterProduct(a, b) ==
    [TensorOf(<<a.shape[1], b.shape[1]>>, 0) EXCEPT
        !.data = [e \in 1..(a.shape[1] * b.shape[1]) |->
            LET i == (e - 1) \div b.shape[1]
                j == (e - 1) % b.shape[1]
            IN  a.data[i + 1] * b.data[j + 1]]]

\* Tensor result({b.shape[1]}); result.data[i] += a.data[j] * b.data[j * b.shape[1] + i]
VectorMatrix(a, b) ==
    [TensorOf(<<b.shape[2]>>, 0) EXCEPT
        !.data = [e \in 1..b.shape[2] |->
            LET i == e - 1
            IN  SumSeq([j1 \in 1..b.shape[1] |->
                    a.data[j1] * b.data[(j1 - 1) * b.shape[2] + i + 1]], 1)]]

\* Tensor result({a.shape[0]}); result.data[i] += a.data[i * a.shape[1] + j] * b.data[j]
MatrixVector(a, b) ==
    [TensorOf(<<a.shape[1]>>, 0) EXCEPT
        !.data = [e \in 1..a.shape[1] |->
            LET i == e - 1
            IN  SumSeq([j1 \in 1..a.shape[2] |->
                    a.data[i * a.shape[2] + j1] * b.data[j1]], 1)]]

\* The same loop assigning instead of accumulating: result.data[...] = a... * b...
MatrixMatrixAssigning(a, b) ==
    [TensorOf(<<a.shape[1], b.shape[2]>>, 0) EXCEPT
        !.data = [e \in 1..(a.shape[1] * b.shape[2]) |->
            LET i == (e - 1) \div b.shape[2]
                j == (e - 1) % b.shape[2]
            IN  a.data[i * a.shape[2] + a.shape[2]]
                    * b.data[(a.shape[2] - 1) * b.shape[2] + j + 1]]]

\* Tensor result({a.shape[0], b.shape[1]});
\* result.data[i * b.shape[1] + j] += a.data[i * a.shape[1] + k] * b.data[k * b.shape[1] + j]
MatrixMatrix(a, b) ==
    [TensorOf(<<a.shape[1], b.shape[2]>>, 0) EXCEPT
        !.data = [e \in 1..(a.shape[1] * b.shape[2]) |->
            LET i == (e - 1) \div b.shape[2]
                j == (e - 1) % b.shape[2]
            IN  SumSeq([k1 \in 1..a.shape[2] |->
                    a.data[i * a.shape[2] + k1]
                        * b.data[(k1 - 1) * b.shape[2] + j + 1]], 1)]]

InvalidDimensions == [status |-> "invalid_argument", result |-> NoTensor]

\* matrix_multiply(a, b): the rank dispatch with its throws, and the product.
matrix_multiply(a, b) ==
    IF Dim(a) = 1 /\ Dim(b) = 1
    THEN [status |-> "ok", result |-> OuterProduct(a, b)]
    ELSE IF Dim(a) = 1 /\ Dim(b) = 2
    THEN IF a.shape[1] # b.shape[1]
         THEN InvalidDimensions
         ELSE [status |-> "ok", result |-> VectorMatrix(a, b)]
    ELSE IF Dim(a) = 2 /\ Dim(b) = 1
    THEN IF a.shape[2] # b.shape[1]
         THEN InvalidDimensions
         ELSE [status |-> "ok", result |-> MatrixVector(a, b)]
    ELSE IF Dim(a) # 2 \/ Dim(b) # 2 \/ a.shape[2] # b.shape[1]
    THEN InvalidDimensions
    ELSE [status |-> "ok", result |-> MatrixMatrix(a, b)]

\* Tensors of one, two and three positive dimensions holding the values
\* 1 - k, 2 - k, ... in row-major order.
StackShapes == {<<c, n, m>> : c \in 1..MaxDim, n \in 1..MaxDim, m \in 1..MaxDim}
Counting(shape, k) ==
    [TensorOf(shape, 0) EXCEPT !.data = [i \in 1..DataSize(shape)[1] |-> i - k]]
MatrixInputs == {Counting(s, k) : s \in PositiveShapes \cup StackShapes, k \in 0..2}

\* LinAlg::matrix_multiply(a, b) on the two operands drawn at the start.
MatrixMultiply ==
    /\ mm.status = "none"
    /\ LET r == matrix_multiply(mm.a, mm.b)
       IN  mm' = [mm EXCEPT !.status = r.status, !.result = r.result]
    /\ UNCHANGED <<t, last, dl, gd, ad, net, tr, sm, ls, sv, am, par, cu>>

LinAlgInit ==
    /\ t = NoTensor
    /\ cu = NoHandle
    /\ par = NoLoop
    /\ am = NoArgmax
    /\ sv = NoFile
    /\ ls = NoLoss
    /\ sm = NoSoftmax
    /\ tr = NoTraining
    /\ net = NoNetwork
    /\ ad = NoOptimizers
    /\ last = NoResult
    /\ \E a \in MatrixInputs, b \in MatrixInputs :
          mm = [a |-> a, b |-> b, status |-> "none", result |-> NoTensor]
    /\ dl = Idle(NoLayer)
    /\ gd = NoDescent(<<>>)

LinAlgNext == MatrixMultiply

SpecLinAlg == LinAlgInit /\ [][LinAlgNext]_vars

-----------------------------------------------------------------------------
(* The Dense layer (src/dense.cpp), its activation and its optimizer *)

MaxBatch == 2     \* the most datapoints in one batch
MaxCalls == 1     \* the most backward calls on one layer

\* Activation::func of relu and of linear
Func(activ, x) == IF activ = "relu" THEN (IF x > 0 THEN x ELSE 0) ELSE x

\* Activation::derivative of relu and of linear
Derivative(activ, x) == IF activ = "relu" THEN (IF x > 0 THEN 1 ELSE 0) ELSE 1

\* Activation::backward(layer) = layer.calc_function(derivative)
ActivationBackward(activ, layer) ==
    [layer EXCEPT !.data = [i \in 1..Len(layer.data) |-> Derivative(activ, layer.data[i])]]

\* Tensor::operator*(float other)
Scaled(x, other) == [x EXCEPT !.data = [i \in 1..Len(x.data) |-> x.data[i] * other]]

\* A batch gradient left as the sum over the datapoints.
DividedByNothing(x, other) == x

\* Tensor::operator/=(float other)
DividedBy(x, other) ==
    [x EXCEPT !.data = [i \in 1..Len(x.data) |->
        IF other < 0 THEN (0 - x.data[i]) \div (0 - other) ELSE x.data[i] \div other]]

\* The quotients the model's numbers can hold.
Exact(x, other) ==
    \A i \in 1..Len(x.data) : x.data[i] % (IF other < 0 THEN 0 - other ELSE other) = 0

\* SGD::apply_grad(params, grads): params -= grads * alpha
apply_grad(opt, params, grads) ==
    [params EXCEPT !.data = Elementwise("-=", params, Scaled(grads, opt.alpha))]

\* Dense::Dense(input, output, activ, opt, randomize) followed by the
\* assignments of the weights and of the bias, as the tests do.
DenseOf(input, output, activ, alpha, kw, kb) ==
    [input_size |-> input, output_size |-> output,
     weights |-> Counting(<<input, output>>, kw),
     bias |-> Counting(<<output>>, kb),
     activ |-> activ,
     w_opt |-> [alpha |-> alpha, applied |-> 0],
     b_opt |-> [alpha |-> alpha, applied |-> 0]]

Thrown == [status |-> "invalid_argument", result |-> NoTensor]

\* Dense::apply(const Tensor& input): matrix_multiply(input, weights) + bias
DenseApply(layer, input) ==
    LET product == matrix_multiply(input, layer.weights)
    IN  IF product.status # "ok" \/ SizesDiffer(product.result, layer.bias)
        THEN Thrown
        ELSE [status |-> "ok",
              result |-> [product.result EXCEPT
                             !.data = Elementwise("+", product.result, layer.bias)]]

\* Dense::apply(const std::vector<Tensor>& input): apply(l) for each l in turn;
\* the first throw ends the call.
DenseApplyEach(layer, input) ==
    LET each == [d \in 1..Len(input) |-> DenseApply(layer, input[d])]
    IN  IF \E d \in 1..Len(input) : each[d].status # "ok"
        THEN [status |-> "invalid_argument", result |-> <<>>]
        ELSE [status |-> "ok", result |-> [d \in 1..Len(input) |-> each[d].result]]

\* The locals of Dense::backward before its loop.
BackwardLocals(layer, n) ==
    [status |-> "ok",
     w_grad |-> TensorOf(<<layer.input_size, layer.output_size>>, 0),
     b_grad |-> TensorOf(<<layer.output_size>>, 0),
     prev_grad |-> [d \in 1..n |-> TensorOf(<<layer.input_size>>, 0)]]

\* The body of the loop of Dense::backward for one datapoint.
BackwardDatapoint(layer, acc, x, og, d) ==
    LET product == matrix_multiply(x, layer.weights)
    IN  IF product.status # "ok" \/ SizesDiffer(product.result, layer.bias)
        THEN [acc EXCEPT !.status = "invalid_argument"]
        ELSE
    LET pre == [product.result EXCEPT
                   !.data = Elementwise("+", product.result, layer.bias)]
        derivative == ActivationBackward(layer.activ, pre)
    IN  IF SizesDiffer(derivative, og)
        THEN [acc EXCEPT !.status = "invalid_argument"]
        ELSE
    LET activ_grad == [derivative EXCEPT !.data = Elementwise("*", derivative, og)]
        outer == matrix_multiply(x, activ_grad)
        back == matrix_multiply(layer.weights, activ_grad)
    IN  IF \/ outer.status # "ok"
           \/ SizesDiffer(acc.w_grad, outer.result)
           \/ SizesDiffer(acc.b_grad, activ_grad)
           \/ back.status # "ok"
        THEN [acc EXCEPT !.status = "invalid_argument"]
        ELSE [acc EXCEPT
                 !.w_grad.data = Elementwise("+=", acc.w_grad, outer.result),
                 !.b_grad.data = Elementwise("+=", acc.b_grad, activ_grad),
                 !.prev_grad[d] = back.result]

\* for (int datapoint = 0; datapoint < n; datapoint++) { ... }
RECURSIVE BackwardLoop(_, _, _, _, _)
BackwardLoop(layer, acc, input_vals, output_grad, d) ==
    IF d > Len(input_vals) \/ acc.status # "ok"
    THEN acc
    ELSE BackwardLoop(layer,
                      BackwardDatapoint(layer, acc, input_vals[d], output_grad[d], d),
                      input_vals, output_grad, d + 1)

\* A backward that applies the two gradients first and computes the gradients
\* it returns from the layer the optimizers left.
DenseBackwardOnUpdated(layer, input_vals, output_grad) ==
    LET n == Len(input_vals)
        acc == BackwardLoop(layer, BackwardLocals(layer, n), input_vals, output_grad, 1)
    IN  IF \/ acc.status # "ok"
           \/ SizesDiffer(layer.weights, acc.w_grad)
           \/ SizesDiffer(layer.bias, acc.b_grad)
        THEN [status |-> "invalid_argument", exact |-> TRUE, layer |-> layer,
              w_grad |-> NoTensor, b_grad |-> NoTensor, prev_grad |-> <<>>]
        ELSE
    LET w_grad == DividedBy(acc.w_grad, n)
        b_grad == DividedBy(acc.b_grad, n)
        updated == [layer EXCEPT
                       !.weights = apply_grad(layer.w_opt, layer.weights, w_grad),
                       !.w_opt.applied = @ + 1,
                       !.bias = apply_grad(layer.b_opt, layer.bias, b_grad),
                       !.b_opt.applied = @ + 1]
    IN  [status |-> "ok",
         exact |-> Exact(acc.w_grad, n) /\ Exact(acc.b_grad, n),
         layer |-> updated,
         w_grad |-> w_grad, b_grad |-> b_grad,
         prev_grad |-> BackwardLoop(updated, BackwardLocals(updated, n),
                                    input_vals, output_grad, 1).prev_grad]

\* Dense::backward(input_vals, output_grad): the layer after the call, the two
\* gradients handed to the optimizers and the gradients returned.
DenseBackward(layer, input_vals, output_grad) ==
    LET n == Len(input_vals)
        acc == BackwardLoop(layer, BackwardLocals(layer, n), input_vals, output_grad, 1)
    IN  IF acc.status # "ok"
        THEN [status |-> acc.status, exact |-> TRUE, layer |-> layer,
              w_grad |-> NoTensor, b_grad |-> NoTensor, prev_grad |-> <<>>]
        ELSE
    LET w_grad == DividedBy(acc.w_grad, n)
        b_grad == DividedBy(acc.b_grad, n)
    IN  IF SizesDiffer(layer.weights, w_grad) \/ SizesDiffer(layer.bias, b_grad)
        THEN [status |-> "invalid_argument", exact |-> TRUE, layer |-> layer,
              w_grad |-> NoTensor, b_grad |-> NoTensor, prev_grad |-> <<>>]
        ELSE [status |-> "ok",
              exact |-> Exact(acc.w_grad, n) /\ Exact(acc.b_grad, n),
              layer |-> [layer EXCEPT
                            !.weights = apply_grad(layer.w_opt, layer.weights, w_grad),
                            !.w_opt.applied = @ + 1,
                            !.bias = apply_grad(layer.b_opt, layer.bias, b_grad),
                            !.b_opt.applied = @ + 1],
              w_grad |-> w_grad, b_grad |-> b_grad, prev_grad |-> acc.prev_grad]

\* The layers, inputs and gradients handed to the operations.
Activs == {"linear", "relu"}
DenseInputs ==
    {DenseOf(input, output, activ, 1, kw, kb) :
        input \in 1..MaxDim, output \in 1..MaxDim, activ \in Activs,
        kw \in {0, 2}, kb \in {0, 3}}
Datapoints(len) == {Counting(<<len>>, k) : k \in {0, 2}}
TensorInputs ==
    {Counting(<<n, len>>, k) : n \in 1..MaxBatch, len \in 1..MaxDim, k \in {0, 2}}
        \cup UNION {Datapoints(len) : len \in 1..MaxDim}
\* The rows of a matrix, as the batch a std::vector<Tensor> holds.
RowsOf(x) ==
    [d \in 1..x.shape[1] |->
        [TensorOf(<<x.shape[2]>>, 0) EXCEPT
            !.data = SubSeq(x.data, (d - 1) * x.shape[2] + 1, d * x.shape[2])]]
BatchInputs ==
    {RowsOf(Counting(<<n, len>>, k)) : n \in 1..MaxBatch, len \in 1..MaxDim, k \in {0, 2}}
\* Gradients that are multiples of the batch size, whose averages are integers.
GradInputs(n, len) == {RowsOf(Scaled(Counting(<<n, len>>, k), n)) : k \in {0, 3}}

\* Dense::apply(const Tensor& input)
Apply ==
    /\ \E input \in TensorInputs :
          LET r == DenseApply(dl.layer, input)
          IN  dl' = [Idle(dl.layer) EXCEPT
                        !.op = "apply", !.status = r.status,
                        !.input = input, !.output = r.result]
    /\ UNCHANGED <<t, last, mm, gd, ad, net, tr, sm, ls, sv, am, par, cu>>

\* Dense::apply(const std::vector<Tensor>& input)
ApplyEach ==
    /\ \E input \in BatchInputs :
          LET r == DenseApplyEach(dl.layer, input)
          IN  dl' = [Idle(dl.layer) EXCEPT
                        !.op = "apply_each", !.status = r.status,
                        !.input_vals = input, !.outputs = r.result]
    /\ UNCHANGED <<t, last, mm, gd, ad, net, tr, sm, ls, sv, am, par, cu>>

\* Dense::backward(input_vals, output_grad); a call that throws leaves the
\* layer as it was and returns nothing.
Backward ==
    /\ dl.layer.w_opt.applied < MaxCalls
    /\ \E input_vals \in BatchInputs :
          \E output_grad \in GradInputs(Len(input_vals), dl.layer.output_size) :
             \E r \in {DenseBackward(dl.layer, input_vals, output_grad)} :
                 /\ r.exact
                 /\ dl' = IF r.status # "ok"
                          THEN [Idle(dl.layer) EXCEPT
                                   !.op = "backward", !.status = r.status]
                          ELSE [Idle(r.layer) EXCEPT
                                   !.before = dl.layer,
                                   !.op = "backward", !.status = r.status,
                                   !.input_vals = input_vals,
                                   !.output_grad = output_grad,
                                   !.outputs = r.prev_grad,
                                   !.w_grad = r.w_grad, !.b_grad = r.b_grad]
    /\ UNCHANGED <<t, last, mm, gd, ad, net, tr, sm, ls, sv, am, par, cu>>

DenseInit ==
    /\ t = NoTensor
    /\ cu = NoHandle
    /\ par = NoLoop
    /\ am = NoArgmax
    /\ sv = NoFile
    /\ ls = NoLoss
    /\ sm = NoSoftmax
    /\ tr = NoTraining
    /\ net = NoNetwork
    /\ ad = NoOptimizers
    /\ last = NoResult
    /\ mm = NoProduct
    /\ \E layer \in DenseInputs : dl = Idle(layer)
    /\ gd = NoDescent(<<>>)

ApplyNext == Apply \/ ApplyEach

SpecDenseApply == DenseInit /\ [][ApplyNext]_vars

BackwardNext == Backward

SpecDenseBackward == DenseInit /\ [][BackwardNext]_vars

-----------------------------------------------------------------------------
(* MLP::grad_descent (src/mlp.cpp) on a stack of Dense layers, one statement *)
(* at a time.  x_train is one datapoint; a layer's backward receives it as   *)
(* a batch of one.                                                           *)

MaxLayers == 2    \* the most layers of a network

\* The derivative of the mean squared error: 2 * (pred - label), of label's shape.
MseDerivative(label, pred) ==
    IF SizesDiffer(label, pred)
    THEN Thrown
    ELSE [status |-> "ok",
          result |-> [TensorOf(label.shape, 0) EXCEPT
                         !.data = [i \in 1..Len(label.data) |->
                                      2 * (pred.data[i] - label.data[i])]]]

\* run_res[i], the argument of layers[i]->apply
ForwardInput(run_res, i) == run_res[i + 1]

\* run_res[num_layers], the argument of loss_fn.calc_derivative
FinalOutput(run_res, num_layers) == run_res[num_layers + 1]

\* run_res[i + 1], the output of layer i, in the place of its input.
BackwardInputShifted(run_res, i) == run_res[i + 2]

\* run_res[i], the first argument of layers[i]->backward
BackwardInput(run_res, i) == run_res[i + 1]

UnitLayers == {l \in DenseInputs : l.input_size = 1 /\ l.output_size = 1}
NetworkInputs == UNION {[1..n -> UnitLayers] : n \in 1..MaxLayers}
LabelInputs == {Counting(<<1>>, k) : k \in {0, 3}}

\* An exception that leaves grad_descent and undoes what the call has done.
RaisedAndRolledBack(g) == [g EXCEPT !.pc = "thrown", !.layers = g.start]

\* An exception leaves grad_descent: there is no try block, the locals are
\* destroyed and the layers stay as they are.
Raised(g) == [g EXCEPT !.pc = "thrown"]

\* The call: num_layers = layers.size(); run_res[0] = x_train
GradDescent ==
    /\ gd.pc = "idle"
    /\ \E x_train \in Datapoints(1), y_train \in LabelInputs :
          gd' = [gd EXCEPT !.pc = "forward", !.i = 0, !.start = gd.layers,
                           !.x_train = x_train, !.y_train = y_train,
                           !.run_res = <<x_train>>]
    /\ UNCHANGED <<t, last, mm, dl, ad, net, tr, sm, ls, sv, am, par, cu>>

\* run_res[i + 1] = layers[i]->apply(run_res[i]); i++
ForwardStep ==
    /\ gd.pc = "forward"
    /\ gd.i < Len(gd.layers)
    /\ LET input == ForwardInput(gd.run_res, gd.i)
           r == DenseApply(gd.layers[gd.i + 1], input)
       IN  gd' = IF r.status # "ok"
                 THEN Raised(gd)
                 ELSE [gd EXCEPT
                          !.run_res = Append(@, r.result),
                          !.i = @ + 1,
                          !.log = Append(@, [call |-> "apply", layer |-> gd.i,
                                             input |-> input, grad |-> NoTensor,
                                             returned |-> r.result])]
    /\ UNCHANGED <<t, last, mm, dl, ad, net, tr, sm, ls, sv, am, par, cu>>

\* out_grad = loss_fn.calc_derivative(y_train, run_res[num_layers]); i = num_layers - 1
LossDerivative ==
    /\ gd.pc = "forward"
    /\ gd.i = Len(gd.layers)
    /\ LET pred == FinalOutput(gd.run_res, Len(gd.layers))
           r == MseDerivative(gd.y_train, pred)
       IN  gd' = IF r.status # "ok"
                 THEN Raised(gd)
                 ELSE [gd EXCEPT
                          !.pc = "backward",
                          !.i = Len(gd.layers) - 1,
                          !.out_grad = r.result,
                          !.log = Append(@, [call |-> "calc_derivative", layer |-> 0 - 1,
                                             input |-> pred, grad |-> NoTensor,
                                             returned |-> r.result])]
    /\ UNCHANGED <<t, last, mm, dl, ad, net, tr, sm, ls, sv, am, par, cu>>

\* out_grad = layers[i]->backward(run_res[i], out_grad); i--
BackwardStep ==
    /\ gd.pc = "backward"
    /\ gd.i >= 0
    /\ LET input == BackwardInput(gd.run_res, gd.i)
           r == DenseBackward(gd.layers[gd.i + 1], <<input>>, <<gd.out_grad>>)
       IN  gd' = IF r.status # "ok"
                 THEN Raised(gd)
                 ELSE [gd EXCEPT
                          !.layers[gd.i + 1] = r.layer,
                          !.out_grad = r.prev_grad[1],
                          !.i = @ - 1,
                          !.log = Append(@, [call |-> "backward", layer |-> gd.i,
                                             input |-> input, grad |-> gd.out_grad,
                                             returned |-> r.prev_grad[1]])]
    /\ UNCHANGED <<t, last, mm, dl, ad, net, tr, sm, ls, sv, am, par, cu>>

\* The loop ends at i < 0 and grad_descent returns.
Return ==
    /\ gd.pc = "backward"
    /\ gd.i < 0
    /\ gd' = [gd EXCEPT !.pc = "done"]
    /\ UNCHANGED <<t, last, mm, dl, ad, net, tr, sm, ls, sv, am, par, cu>>

DescentInit ==
    /\ t = NoTensor
    /\ cu = NoHandle
    /\ par = NoLoop
    /\ am = NoArgmax
    /\ sv = NoFile
    /\ ls = NoLoss
    /\ sm = NoSoftmax
    /\ tr = NoTraining
    /\ net = NoNetwork
    /\ ad = NoOptimizers
    /\ last = NoResult
    /\ mm = NoProduct
    /\ dl = Idle(NoLayer)
    /\ \E layers \in NetworkInputs : gd = NoDescent(layers)

DescentNext == GradDescent \/ ForwardStep \/ LossDerivative \/ BackwardStep \/ Return

SpecDescent == DescentInit /\ [][DescentNext]_vars

-----------------------------------------------------------------------------
(* grad_descent on networks and batches of any widths: the calls that throw *)

\* Linear layers of every pair of widths, networks of them whether or not the
\* widths of neighbours agree, one-row batches and single datapoints.
PlainLayers ==
    {DenseOf(input, output, "linear", 1, 0, 0) : input \in 1..MaxDim, output \in 1..MaxDim}
ChainInputs == UNION {[1..n -> PlainLayers] : n \in 1..MaxLayers}
RowInputs ==
    {Counting(<<1, len>>, 0) : len \in 1..MaxDim} \cup {Counting(<<len>>, 0) : len \in 1..MaxDim}
TargetInputs == {Counting(<<len>>, 0) : len \in 1..MaxDim}

\* The call of grad_descent with a one-row batch or a datapoint.
GradDescentRow ==
    /\ gd.pc = "idle"
    /\ \E x_train \in RowInputs, y_train \in TargetInputs :
          gd' = [gd EXCEPT !.pc = "forward", !.i = 0, !.start = gd.layers,
                           !.x_train = x_train, !.y_train = y_train,
                           !.run_res = <<x_train>>]
    /\ UNCHANGED <<t, last, mm, dl, ad, net, tr, sm, ls, sv, am, par, cu>>

ThrowsInit ==
    /\ t = NoTensor
    /\ cu = NoHandle
    /\ par = NoLoop
    /\ am = NoArgmax
    /\ sv = NoFile
    /\ ls = NoLoss
    /\ sm = NoSoftmax
    /\ tr = NoTraining
    /\ net = NoNetwork
    /\ ad = NoOptimizers
    /\ last = NoResult
    /\ mm = NoProduct
    /\ dl = Idle(NoLayer)
    /\ \E layers \in ChainInputs : gd = NoDescent(layers)

ThrowsNext == GradDescentRow \/ ForwardStep \/ LossDerivative \/ BackwardStep \/ Return

SpecDescentThrows == ThrowsInit /\ [][ThrowsNext]_vars

-----------------------------------------------------------------------------
(* The Adam optimizer (src/adam.cpp, include/FJML/optimizers.h) *)

MaxSteps == 2        \* the most calls made on the optimizer objects
MaxOptimizers == 2   \* the most optimizer objects alive

\* std::pow(beta, t) for an integer beta and t >= 0
RECURSIVE Pow(_, _)
Pow(b, n) == IF n = 0 THEN 1 ELSE b * Pow(b, n - 1)

\* sqrt of a float that holds a perfect square
Sqrt(x) == CHOOSE r \in 0..x : r * r = x

\* Adam(double a, double b1, double b2): Optimizer{"Adam"}, m{{0}}, v{{0}}, t{1}
AdamOf(a, b1, b2) ==
    [name |-> "Adam", m |-> TensorOf(<<0>>, 0), v |-> TensorOf(<<0>>, 0), t |-> 1,
     alpha |-> a, beta1 |-> b1, beta2 |-> b2]

\* The condition of Adam::init.
MomentsDiffer(opt, params) ==
    \/ opt.m.data_size[1] # params.data_size[1]
    \/ opt.v.data_size[1] # params.data_size[1]

\* An init that starts over on every call.
AdamInitAlways(opt, params) ==
    [opt EXCEPT !.m = TensorOf(params.shape, 0), !.v = TensorOf(params.shape, 0), !.t = 1]

\* Adam::init(const Tensor& params)
AdamInit(opt, params) ==
    IF MomentsDiffer(opt, params)
    THEN [opt EXCEPT !.m = TensorOf(params.shape, 0),
                     !.v = TensorOf(params.shape, 0),
                     !.t = 1]
    ELSE opt

\* One element of alpha * m_hat / (sqrt(v_hat) + epsilon) in single precision:
\* epsilon = 1e-8 is below half an ulp of every root >= 1, and is the whole
\* divisor where the root is 0.
OverRoot(num, root) == IF root = 0 THEN num * 100000000 ELSE num \div root

\* The moments after the two updates of Adam::apply_grad; a two-tensor operator
\* returns a tensor of the shape of its left operand.
FirstMoment(opt, grads) ==
    [opt.m EXCEPT !.data = Elementwise("+", Scaled(opt.m, opt.beta1),
                                            Scaled(grads, 1 - opt.beta1))]

SecondMoment(opt, grads) ==
    [opt.v EXCEPT !.data =
        Elementwise("+", Scaled(opt.v, opt.beta2),
                    [grads EXCEPT !.data =
                        Elementwise("*", Scaled(grads, 1 - opt.beta2), grads)])]

\* Adam::apply_grad(Tensor& params, const Tensor& grads): the optimizer and the
\* parameters after the call.
AdamApplyGrad(opt, params, grads) ==
    LET ready == AdamInit(opt, params)
        m == FirstMoment(ready, grads)
        v == SecondMoment(ready, grads)
        m_hat == DividedBy(m, 1 - Pow(ready.beta1, ready.t))
        v_hat == DividedBy(v, 1 - Pow(ready.beta2, ready.t))
        root == [v_hat EXCEPT !.data = [i \in 1..Len(v_hat.data) |-> Sqrt(v_hat.data[i])]]
        step == [m_hat EXCEPT !.data =
                    [i \in 1..Len(m_hat.data) |->
                        OverRoot(ready.alpha * m_hat.data[i], root.data[i])]]
    IN  [opt |-> [ready EXCEPT !.m = m, !.v = v, !.t = ready.t + 1],
         params |-> [params EXCEPT !.data = Elementwise("-=", params, step)]]

\* Optimizer* clone() const override { return new Adam(*this); }
CloneOf(opt) == opt

\* Hyperparameters that keep every moment an integer: beta1 = beta2 = 0 makes
\* m the last gradient and v its square.
Hyperparameters == {[alpha |-> 1, beta1 |-> 0, beta2 |-> 0]}

\* The parameter tensors and, for each, the gradients of its shape.
ParamInputs == {Counting(shape, 0) : shape \in PositiveShapes}
GradsFor(params) == {Counting(params.shape, k) : k \in 0..1}

\* A call of apply_grad on one of the optimizer objects.
ApplyGrad ==
    /\ ad.calls < MaxSteps
    /\ \E target \in 1..Len(ad.heap), params \in ParamInputs :
         \E grads \in GradsFor(params) :
            LET done == AdamApplyGrad(ad.heap[target], params, grads)
            IN  ad' = [heap |-> [ad.heap EXCEPT ![target] = done.opt],
                       before |-> ad.heap, op |-> "apply_grad", target |-> target,
                       calls |-> ad.calls + 1,
                       params |-> params, grads |-> grads, result |-> done.params]
    /\ UNCHANGED <<t, last, mm, dl, gd, net, tr, sm, ls, sv, am, par, cu>>

\* A call of clone on one of the optimizer objects: the new object is the last.
Clone ==
    /\ ad.calls < MaxSteps
    /\ Len(ad.heap) < MaxOptimizers
    /\ \E target \in 1..Len(ad.heap) :
         ad' = [heap |-> Append(ad.heap, CloneOf(ad.heap[target])),
                before |-> ad.heap, op |-> "clone", target |-> target,
                calls |-> ad.calls + 1,
                params |-> NoTensor, grads |-> NoTensor, result |-> NoTensor]
    /\ UNCHANGED <<t, last, mm, dl, gd, net, tr, sm, ls, sv, am, par, cu>>

AdamStart ==
    /\ t = NoTensor
    /\ cu = NoHandle
    /\ par = NoLoop
    /\ am = NoArgmax
    /\ sv = NoFile
    /\ ls = NoLoss
    /\ sm = NoSoftmax
    /\ tr = NoTraining
    /\ net = NoNetwork
    /\ last = NoResult
    /\ mm = NoProduct
    /\ dl = Idle(NoLayer)
    /\ gd = NoDescent(<<>>)
    /\ \E h \in Hyperparameters :
         ad = [NoOptimizers EXCEPT !.heap = <<AdamOf(h.alpha, h.beta1, h.beta2)>>]

AdamNext == ApplyGrad \/ Clone

SpecAdam == AdamStart /\ [][AdamNext]_vars

-----------------------------------------------------------------------------
(* The optimizers of the layers of an MLP (include/FJML/mlp.h, src/dense.cpp) *)

\* An optimizer object is in net.heap at its address; address 0 is no object.
\* new SGD() / new Adam(): the heap with the new object, whose address is the last.
Allocated(heap, name) == Append(heap, [name |-> name])

\* opt->clone(): the heap with a new object, a copy of the one at opt.
Cloned(heap, opt) == Append(heap, heap[opt])

\* Dense::Dense(input, output, activ, opt, randomize): w_opt{opt->clone()},
\* b_opt{opt->clone()}; the heap and the new layer.
DenseCtor(heap, opt) ==
    LET first == Cloned(heap, opt)
        second == Cloned(first, opt)
    IN  [heap |-> second,
         layer |-> [name |-> "Dense", w_opt |-> Len(first), b_opt |-> Len(second)]]

\* Dense::Dense(std::ifstream& file) initialises neither w_opt nor b_opt: the two
\* pointers hold whatever the allocation held.
DenseFromFile(w, b) == [name |-> "Dense", w_opt |-> w, b_opt |-> b]

\* Softmax::Softmax()
SoftmaxCtor == [name |-> "Softmax", w_opt |-> 0, b_opt |-> 0]

\* Dense::set_optimizer(opt): w_opt = opt->clone(); b_opt = opt->clone();
DenseSetOptimizer(heap, layer, opt) ==
    LET first == Cloned(heap, opt)
        second == Cloned(first, opt)
    IN  [heap |-> second,
         layer |-> [layer EXCEPT !.w_opt = Len(first), !.b_opt = Len(second)]]

\* MLP::set_optimizer(optimizer): the loop over the layers from layer i on.
RECURSIVE SetOptimizerFrom(_, _, _, _)
SetOptimizerFrom(heap, layers, opt, i) ==
    IF i > Len(layers) THEN [heap |-> heap, layers |-> layers]
    ELSE IF layers[i].name = "Dense"
         THEN LET set == DenseSetOptimizer(heap, layers[i], opt)
              IN  SetOptimizerFrom(set.heap, [layers EXCEPT ![i] = set.layer], opt, i + 1)
         ELSE SetOptimizerFrom(heap, layers, opt, i + 1)

\* The layers a caller builds, each Dense with its default optimizer argument
\* new SGD(): the heap and the layers of the given kinds.
RECURSIVE Built(_, _, _, _)
Built(heap, templates, kinds, layers) ==
    IF Len(layers) = Len(kinds)
    THEN [heap |-> heap, templates |-> templates, layers |-> layers]
    ELSE LET kind == kinds[Len(layers) + 1]
             made == DenseCtor(Allocated(heap, "SGD"), Len(heap) + 1)
         IN  CASE kind = "Dense" ->
                    Built(made.heap, templates \cup {Len(heap) + 1}, kinds,
                          Append(layers, made.layer))
               [] kind = "Dense(file)" ->
                    Built(heap, templates, kinds, Append(layers, DenseFromFile(0, 0)))
               [] kind = "Softmax" ->
                    Built(heap, templates, kinds, Append(layers, SoftmaxCtor))

LayerKinds == {"Dense", "Dense(file)", "Softmax"}
OptimizerNames == {"SGD", "Adam"}

\* MLP::MLP(layers, loss, optimizer): layers{layers}, then set_optimizer(optimizer).
MLPCtor ==
    \E n \in 0..MaxLayers : \E kinds \in [1..n -> LayerKinds], name \in OptimizerNames :
        LET built == Built(<<>>, {}, kinds, <<>>)
            optimizer == Len(built.heap) + 1
            set == SetOptimizerFrom(Allocated(built.heap, name), built.layers, optimizer, 1)
        IN  net = [heap |-> set.heap, layers |-> set.layers,
                   templates |-> built.templates \cup {optimizer},
                   op |-> "MLP", calls |-> 0]

\* MLP::add(layer) with a layer built by Dense::Dense(input, output, ...) or by
\* Softmax::Softmax()
AddLayer ==
    /\ net.calls < MaxSteps
    /\ Len(net.layers) < MaxLayers
    /\ \E kind \in {"Dense", "Softmax"} :
         LET built == Built(net.heap, net.templates, <<kind>>, <<>>)
         IN  net' = [heap |-> built.heap, layers |-> Append(net.layers, built.layers[1]),
                     templates |-> built.templates, op |-> "add",
                     calls |-> net.calls + 1]
    /\ UNCHANGED <<t, last, mm, dl, gd, ad, tr, sm, ls, sv, am, par, cu>>

\* MLP::add(layer) with a layer built by Dense::Dense(std::ifstream&), as
\* Layers::load returns it: each pointer is any address or no object's.
AddLoadedLayer ==
    /\ net.calls < MaxSteps
    /\ Len(net.layers) < MaxLayers
    /\ \E w \in 0..Len(net.heap), b \in 0..Len(net.heap) :
         net' = [net EXCEPT !.layers = Append(net.layers, DenseFromFile(w, b)),
                            !.op = "add", !.calls = net.calls + 1]
    /\ UNCHANGED <<t, last, mm, dl, gd, ad, tr, sm, ls, sv, am, par, cu>>

\* MLP::set_optimizer(optimizer) with a new optimizer object
SetOptimizer ==
    /\ net.calls < MaxSteps
    /\ \E name \in OptimizerNames :
         LET optimizer == Len(net.heap) + 1
             set == SetOptimizerFrom(Allocated(net.heap, name), net.layers, optimizer, 1)
         IN  net' = [heap |-> set.heap, layers |-> set.layers,
                     templates |-> net.templates \cup {optimizer},
                     op |-> "set_optimizer", calls |-> net.calls + 1]
    /\ UNCHANGED <<t, last, mm, dl, gd, ad, tr, sm, ls, sv, am, par, cu>>

BuildInit ==
    /\ t = NoTensor
    /\ cu = NoHandle
    /\ par = NoLoop
    /\ am = NoArgmax
    /\ sv = NoFile
    /\ ls = NoLoss
    /\ sm = NoSoftmax
    /\ tr = NoTraining
    /\ last = NoResult
    /\ mm = NoProduct
    /\ dl = Idle(NoLayer)
    /\ gd = NoDescent(<<>>)
    /\ ad = NoOptimizers
    /\ MLPCtor

BuildNext == AddLayer \/ AddLoadedLayer \/ SetOptimizer

SpecBuild == BuildInit /\ [][BuildNext]_vars

-----------------------------------------------------------------------------
(* MLP::train (src/mlp.cpp), one batch at a time; each grad_descent call runs *)
(* the statements of grad_descent above                                       *)

MaxRows == 2        \* the most rows of a training set
MaxEpochs == 2      \* the most epochs asked of train

SizeofFloat == 4    \* the element type of Tensor::data
SizeofDouble == 8   \* the element type the two memcpy calls of train count in

Min(a, b) == IF a < b THEN a ELSE b
Beyond(end, size) == IF end > size THEN end - size ELSE 0

\* memcpy(dst + doff, src + soff, bytes) on two float buffers: the destination
\* buffer afterwards.  An element read from beyond the source is indeterminate.
Memcpy(dst, doff, src, soff, bytes, garbage) ==
    [p \in 1..Len(dst) |->
        IF p - 1 >= doff /\ p - 1 < doff + bytes \div SizeofFloat
        THEN IF soff + (p - 1 - doff) < Len(src)
             THEN src[soff + (p - 1 - doff) + 1]
             ELSE garbage
        ELSE dst[p]]

\* The elements a memcpy writes beyond the destination buffer and reads beyond
\* the source buffer.
Stray(dst, doff, src, soff, bytes) ==
    Beyond(doff + bytes \div SizeofFloat, Len(dst))
    + Beyond(soff + bytes \div SizeofFloat, Len(src))

\* for (int k = j; k < batch_end; k++) memcpy(batch.data + (k - j) * row,
\*     train.data + indices[k] * row, row * sizeof(double)), row = train.data_size[1]
RECURSIVE CopyRows(_, _, _, _, _, _, _)
CopyRows(batch, train, indices, j, k, batch_end, garbage) ==
    IF k >= batch_end THEN batch
    ELSE LET row == train.data_size[2]
         IN  CopyRows([batch EXCEPT !.data = Memcpy(batch.data, (k - j) * row, train.data,
                                                     indices[k + 1] * row,
                                                     row * SizeofDouble, garbage)],
                      train, indices, j, k + 1, batch_end, garbage)

RECURSIVE StrayRows(_, _, _, _, _, _)
StrayRows(batch, train, indices, j, k, batch_end) ==
    IF k >= batch_end THEN 0
    ELSE LET row == train.data_size[2]
         IN  Stray(batch.data, (k - j) * row, train.data, indices[k + 1] * row,
                   row * SizeofDouble)
             + StrayRows(batch, train, indices, j, k + 1, batch_end)

\* MLP::run(input): the layers applied in turn
RECURSIVE Run(_, _, _)
Run(layers, input, i) ==
    IF i > Len(layers) THEN [status |-> "ok", result |-> input]
    ELSE LET r == DenseApply(layers[i], input)
         IN  IF r.status # "ok" THEN Thrown ELSE Run(layers, r.result, i + 1)

\* The orders std::random_shuffle can leave the indices in.
Shuffles(indices) ==
    {s \in [1..Len(indices) -> {indices[i] : i \in 1..Len(indices)}] :
        \A i, j \in 1..Len(indices) : i # j => s[i] # s[j]}

\* The networks trained: no layer, or one linear Dense layer of the width of
\* the rows.
TrainNetworks(width) == {<<>>, <<DenseOf(width, width, "linear", 1, 0, 0)>>}

\* What the allocation a stray read falls into can hold.
Garbage == {0, 7}

\* The call: the two checks of the numbers of samples, then the indices 0..N-1.
\* x_test and y_test are x_train and y_train, and save_file is "".
Train ==
    /\ tr.pc = "idle"
    /\ tr' = IF tr.x_train.shape[1] # tr.y_train.shape[1]
             THEN [tr EXCEPT !.pc = "thrown"]
             ELSE [tr EXCEPT !.pc = "epoch", !.i = 0,
                             !.indices = [k \in 1..tr.x_train.shape[1] |-> k - 1]]
    /\ UNCHANGED <<t, last, mm, dl, gd, ad, net, sm, ls, sv, am, par, cu>>

\* i < epochs: std::random_shuffle(indices.begin(), indices.end()); j = 0
EpochStart ==
    /\ tr.pc = "epoch"
    /\ tr.i < tr.epochs
    /\ \E shuffled \in Shuffles(tr.indices) :
         tr' = [tr EXCEPT !.pc = "batch", !.indices = shuffled, !.j = 0,
                          !.batches = <<>>]
    /\ UNCHANGED <<t, last, mm, dl, gd, ad, net, sm, ls, sv, am, par, cu>>

\* j < num_inputs: the two batch tensors, the copies of the rows, and the call
\* of grad_descent.  Copies that leave the buffers have undefined behaviour:
\* the run goes on or the process ends.
Batch ==
    /\ tr.pc = "batch"
    /\ tr.j < tr.x_train.shape[1]
    /\ gd.pc = "idle"
    /\ \E garbage \in Garbage, survives \in BOOLEAN :
         LET batch_end == Min(tr.j + tr.batch_size, tr.x_train.shape[1])
             empty_x == TensorOf([tr.x_train.shape EXCEPT ![1] = batch_end - tr.j], 0)
             empty_y == TensorOf([tr.y_train.shape EXCEPT ![1] = batch_end - tr.j], 0)
             x_batch == CopyRows(empty_x, tr.x_train, tr.indices, tr.j, tr.j, batch_end, garbage)
             y_batch == CopyRows(empty_y, tr.y_train, tr.indices, tr.j, tr.j, batch_end, garbage)
             stray == StrayRows(empty_x, tr.x_train, tr.indices, tr.j, tr.j, batch_end)
                      + StrayRows(empty_y, tr.y_train, tr.indices, tr.j, tr.j, batch_end)
             copied == [tr EXCEPT !.stray = @ + stray,
                                  !.batches = Append(@, [rows |-> SubSeq(tr.indices, tr.j + 1, batch_end),
                                                         x_batch |-> x_batch,
                                                         y_batch |-> y_batch])]
         IN  IF stray > 0 /\ ~survives
             THEN /\ tr' = [copied EXCEPT !.pc = "crashed"]
                  /\ gd' = gd
             ELSE /\ tr' = [copied EXCEPT !.pc = "descent"]
                  /\ gd' = [gd EXCEPT !.pc = "forward", !.i = 0, !.start = gd.layers,
                                      !.x_train = x_batch, !.y_train = y_batch,
                                      !.run_res = <<x_batch>>, !.log = <<>>]
    /\ UNCHANGED <<t, last, mm, dl, ad, net, sm, ls, sv, am, par, cu>>

\* grad_descent has returned: j += batch_size
DescentReturned ==
    /\ tr.pc = "descent"
    /\ gd.pc = "done"
    /\ tr' = [tr EXCEPT !.pc = "batch", !.j = @ + tr.batch_size]
    /\ gd' = [NoDescent(gd.layers) EXCEPT !.start = gd.start]
    /\ UNCHANGED <<t, last, mm, dl, ad, net, sm, ls, sv, am, par, cu>>

\* grad_descent has thrown: train has no try block either
DescentThrew ==
    /\ tr.pc = "descent"
    /\ gd.pc = "thrown"
    /\ tr' = [tr EXCEPT !.pc = "thrown"]
    /\ gd' = [NoDescent(gd.layers) EXCEPT !.start = gd.start]
    /\ UNCHANGED <<t, last, mm, dl, ad, net, sm, ls, sv, am, par, cu>>

\* j >= num_inputs: the losses and accuracies of the pass are computed from
\* run(x_train) and printed; i++
EpochEnd ==
    /\ tr.pc = "batch"
    /\ tr.j >= tr.x_train.shape[1]
    /\ LET y_pred == Run(gd.layers, tr.x_train, 1)
       IN  tr' = IF y_pred.status # "ok" \/ SizesDiffer(y_pred.result, tr.y_train)
                 THEN [tr EXCEPT !.pc = "thrown"]
                 ELSE [tr EXCEPT !.pc = "epoch", !.i = @ + 1,
                                 !.passes = Append(@, [b \in 1..Len(tr.batches) |->
                                                          Len(tr.batches[b].rows)])]
    /\ UNCHANGED <<t, last, mm, dl, gd, ad, net, sm, ls, sv, am, par, cu>>

\* i >= epochs: train returns
Trained ==
    /\ tr.pc = "epoch"
    /\ tr.i >= tr.epochs
    /\ tr' = [tr EXCEPT !.pc = "done"]
    /\ UNCHANGED <<t, last, mm, dl, gd, ad, net, sm, ls, sv, am, par, cu>>

TrainInit ==
    /\ t = NoTensor
    /\ cu = NoHandle
    /\ par = NoLoop
    /\ am = NoArgmax
    /\ sv = NoFile
    /\ ls = NoLoss
    /\ sm = NoSoftmax
    /\ last = NoResult
    /\ mm = NoProduct
    /\ dl = Idle(NoLayer)
    /\ ad = NoOptimizers
    /\ net = NoNetwork
    /\ \E N \in 1..MaxRows, width \in 1..MaxDim, epochs \in 0..MaxEpochs,
          batch_size \in 1..(MaxRows + 1) :
         /\ \E layers \in TrainNetworks(width) : gd = NoDescent(layers)
         /\ tr = [NoTraining EXCEPT !.x_train = Counting(<<N, width>>, 0),
                                    !.y_train = Counting(<<N, width>>, 1),
                                    !.epochs = epochs, !.batch_size = batch_size]

TrainNext ==
    \/ Train \/ EpochStart \/ Batch \/ DescentReturned \/ DescentThrew
    \/ EpochEnd \/ Trained
    \/ ForwardStep \/ LossDerivative \/ BackwardStep \/ Return

SpecTrain == TrainInit /\ [][TrainNext]_vars

-----------------------------------------------------------------------------
(* Softmax::apply (src/softmax.cpp) *)

\* The maximum the loop over j = 1 .. shape[1] - 1 of row i leaves in max,
\* started from the given value.
RECURSIVE RowMaxFrom(_, _, _, _)
RowMaxFrom(res, i, j, max) ==
    IF j >= res.shape[2] THEN max
    ELSE LET x == res.data[i * res.shape[2] + j + 1]
         IN  RowMaxFrom(res, i, j + 1, IF x > max THEN x ELSE max)

\* float max = res.data[0]: the start of the maximum of every row
StartOfMax(res, i) == res.data[1]

\* The arguments of exp in Softmax::apply: res.data[i * shape[1] + j] - max.
\* The output is exp of each, divided by the sum over its row.
SoftmaxExponents(input) ==
    [input EXCEPT !.data =
        [p \in 1..Len(input.data) |->
            LET i == (p - 1) \div input.shape[2]
            IN  input.data[p] - RowMaxFrom(input, i, 1, StartOfMax(input, i))]]

\* The rows of logits: rising, falling, level, and rising from 1.
RowPatterns(w) ==
    {[j \in 1..w |-> j - 1], [j \in 1..w |-> w - j], [j \in 1..w |-> 0], [j \in 1..w |-> j]}

\* The [n, w] tensor of the given rows.
Stacked(rows, n, w) ==
    [TensorOf(<<n, w>>, 0) EXCEPT
        !.data = [p \in 1..(n * w) |-> rows[(p - 1) \div w + 1][((p - 1) % w) + 1]]]

LogitBatches(n, w) == {Stacked(rows, n, w) : rows \in [1..n -> RowPatterns(w)]}

\* Tensor::operator+(float other)
PlusConstant(x, other) == [x EXCEPT !.data = [i \in 1..Len(x.data) |-> x.data[i] + other]]

\* The batches of logits, as they are or all raised or lowered by 1000.
LogitShifts == {0, 1000, 0 - 1000}
LogitInputs ==
    UNION {{PlusConstant(x, c) : x \in LogitBatches(n, w), c \in LogitShifts} :
           n \in 1..MaxBatch, w \in 1..MaxDim}

\* Softmax::apply(const Tensor& input)
SoftmaxApply ==
    /\ sm.status = "none"
    /\ sm' = [sm EXCEPT !.status = "ok", !.exponents = SoftmaxExponents(sm.input)]
    /\ UNCHANGED <<t, last, mm, dl, gd, ad, net, tr, ls, sv, am, par, cu>>

SoftmaxInit ==
    /\ t = NoTensor
    /\ cu = NoHandle
    /\ par = NoLoop
    /\ am = NoArgmax
    /\ sv = NoFile
    /\ ls = NoLoss
    /\ last = NoResult
    /\ mm = NoProduct
    /\ dl = Idle(NoLayer)
    /\ gd = NoDescent(<<>>)
    /\ ad = NoOptimizers
    /\ net = NoNetwork
    /\ tr = NoTraining
    /\ \E input \in LogitInputs : sm = [NoSoftmax EXCEPT !.input = input]

SoftmaxNext == SoftmaxApply

SpecSoftmax == SoftmaxInit /\ [][SoftmaxNext]_vars

-----------------------------------------------------------------------------
(* The loss functions (src/loss.cpp, include/FJML/loss.h) *)

Clip == 1000000    \* const float clip = 1e6

\* The function of mse: the sum of (label - pred)^2
MseFunction(label, pred) ==
    IF SizesDiffer(label, pred)
    THEN [status |-> "invalid_argument", value |-> <<>>]
    ELSE [status |-> "ok",
          value |-> SumSeq([i \in 1..Len(label.data) |->
                               (label.data[i] - pred.data[i]) * (label.data[i] - pred.data[i])], 1)]

\* float max = pred.data[offset]; for (i = 1; i < row; i++) if (pred.data[offset + i] > max) ...
RECURSIVE MaxLogit(_, _, _, _, _)
MaxLogit(pred, offset, i, row, max) ==
    IF i >= row THEN max
    ELSE MaxLogit(pred, offset, i + 1, row,
                  IF pred.data[offset + i + 1] > max THEN pred.data[offset + i + 1] ELSE max)

\* An argument of exp left as the logit itself.
ExponentUnshifted(x, max) == x

\* pred.data[offset + i] - max, the argument of every std::exp of the loss
ExponentOf(x, max) == x - max

\* The arguments of the exponentials summed in denom, for the row at offset.
DenomExponents(pred, offset, row) ==
    [i \in 1..row |-> ExponentOf(pred.data[offset + i],
                                 MaxLogit(pred, offset, 1, row, pred.data[offset + 1]))]

\* The throw condition of the two functions of crossentropy(true).
LogitsMismatch(label, pred) ==
    label.data_size[1] # pred.data_size[1] \/ label.shape[1] # pred.shape[1]

\* The function of crossentropy(true).  The float result is the sum, in this
\* order, of the terms linear + weight * log(sum of exp over denom).
LogitsFunction(label, pred) ==
    IF LogitsMismatch(label, pred)
    THEN [status |-> "invalid_argument", value |-> <<>>]
    ELSE LET row == label.data_size[2]
         IN  [status |-> "ok",
              value |-> [p \in 1..Len(label.data) |->
                  LET offset == ((p - 1) \div row) * row
                      denom == DenomExponents(pred, offset, row)
                  IN  [linear |-> (0 - label.data[p]) * denom[p - offset],
                       weight |-> label.data[p],
                       denom |-> denom]]]

\* The derivative of crossentropy(true).  Element offset + i of the result is
\* minus + exp(exponent) / (sum of exp over denom).
LogitsDerivative(label, pred) ==
    IF LogitsMismatch(label, pred)
    THEN [status |-> "invalid_argument", value |-> <<>>]
    ELSE LET row == label.data_size[2]
         IN  [status |-> "ok",
              value |-> [p \in 1..Len(label.data) |->
                  LET offset == ((p - 1) \div row) * row
                      denom == DenomExponents(pred, offset, row)
                  IN  [minus |-> 0 - label.data[p],
                       exponent |-> denom[p - offset],
                       denom |-> denom]]]

\* Loss::calc_loss(obs, pred): function(obs, pred)
CalcLossOf(fn, obs, pred) ==
    IF fn = "mse" THEN MseFunction(obs, pred) ELSE LogitsFunction(obs, pred)

\* Loss::calc_derivative(obs, pred): derivative(obs, pred)
CalcDerivativeOf(fn, obs, pred) ==
    IF fn = "mse"
    THEN LET r == MseDerivative(obs, pred)
         IN  [status |-> r.status, value |-> r.result.data]
    ELSE LogitsDerivative(obs, pred)

\* One-hot labels: row r has its 1 at hot[r].
OneHot(w, at) == [j \in 1..w |-> IF j = at THEN 1 ELSE 0]
OneHotBatches(n, w) ==
    {Stacked([r \in 1..n |-> OneHot(w, at[r])], n, w) : at \in [1..n -> 1..w]}

\* The constants added to every logit.
Constants == {1000, 0 - 1000}

\* The predictions handed to mse: small ones and ones far from the labels.
Magnitudes == {1, 600000}

\* loss.calc_loss(label, pred) and loss.calc_loss(label, pred + c)
CalcLoss ==
    \E which \in {"pred", "raised"} :
        /\ ls.loss[which].status = "none"
        /\ ls' = [ls EXCEPT !.loss[which] = CalcLossOf(ls.fn, ls.label, ls[which])]
        /\ UNCHANGED <<t, last, mm, dl, gd, ad, net, tr, sm, sv, am, par, cu>>

\* loss.calc_derivative(label, pred) and loss.calc_derivative(label, pred + c)
CalcDerivative ==
    \E which \in {"pred", "raised"} :
        /\ ls.grad[which].status = "none"
        /\ ls' = [ls EXCEPT !.grad[which] = CalcDerivativeOf(ls.fn, ls.label, ls[which])]
        /\ UNCHANGED <<t, last, mm, dl, gd, ad, net, tr, sm, sv, am, par, cu>>

\* The arguments: one-hot labels with logits for crossentropy(true), or labels
\* and predictions of the given magnitudes for mse.
LossStart(sizes) ==
    /\ t = NoTensor
    /\ cu = NoHandle
    /\ par = NoLoop
    /\ am = NoArgmax
    /\ sv = NoFile
    /\ last = NoResult
    /\ mm = NoProduct
    /\ dl = Idle(NoLayer)
    /\ gd = NoDescent(<<>>)
    /\ ad = NoOptimizers
    /\ net = NoNetwork
    /\ tr = NoTraining
    /\ sm = NoSoftmax
    /\ \E n \in 1..MaxBatch, w \in 1..MaxDim, c \in Constants :
         \/ \E label \in OneHotBatches(n, w), pred \in LogitBatches(n, w) :
               ls = [NoLoss EXCEPT !.fn = "crossentropy", !.label = label,
                                   !.pred = pred, !.raised = PlusConstant(pred, c)]
         \/ \E size \in sizes :
               ls = [NoLoss EXCEPT !.fn = "mse", !.label = Counting(<<n, w>>, 0),
                                   !.pred = Scaled(Counting(<<n, w>>, 1), size),
                                   !.raised = PlusConstant(Scaled(Counting(<<n, w>>, 1), size), c)]

LossInit == LossStart({1})

LossNext == CalcLoss \/ CalcDerivative

\* The derivatives alone, of predictions near the labels and far from them.
ClipInit == LossStart(Magnitudes)

ClipNext == CalcDerivative

SpecClip == ClipInit /\ [][ClipNext]_vars

SpecLoss == LossInit /\ [][LossNext]_vars

-----------------------------------------------------------------------------
(* MLP::save and MLP::load (src/mlp.cpp, src/dense.cpp, src/softmax.cpp) *)

Precision == 6     \* the significant digits operator<< writes of a float

\* A model file is the sequence of the whitespace-separated tokens of its
\* text: operator>> skips whitespace and reads up to the next one.  A name is
\* the sequence of its words.
Word(w) == [kind |-> "word", word |-> w, number |-> 0]
Number(n) == [kind |-> "number", word |-> "", number |-> n]
EndOfFile == [kind |-> "eof", word |-> "", number |-> 0]

\* const std::vector<Activation> activations: the names
ActivationNames ==
    <<<<"sigmoid">>, <<"tanh">>, <<"relu">>, <<"leaky", "relu">>, <<"linear">>, <<"swish">>>>

RECURSIVE Digits(_)
Digits(n) == IF n < 10 THEN 1 ELSE 1 + Digits(n \div 10)

\* file << x for a float x holding an integer: the number the written text
\* denotes, x rounded to Precision significant digits (ties to even).
Formatted(x) ==
    LET a == IF x < 0 THEN 0 - x ELSE x
        unit == Pow(10, Digits(a) - Precision)
        q == a \div unit
        r == a % unit
        up == IF 2 * r > unit \/ (2 * r = unit /\ q % 2 = 1) THEN q + 1 ELSE q
    IN  IF Digits(a) <= Precision THEN x
        ELSE IF x < 0 THEN 0 - up * unit ELSE up * unit

\* Dense::save(file)
DenseSave(file, layer) ==
    file \o <<Word("Dense")>>
         \o [k \in 1..Len(layer.activ) |-> Word(layer.activ[k])]
         \o <<Number(layer.input_size), Number(layer.output_size)>>
         \o [k \in 1..Len(layer.weights.data) |-> Number(Formatted(layer.weights.data[k]))]
         \o [k \in 1..Len(layer.bias.data) |-> Number(Formatted(layer.bias.data[k]))]

\* Softmax::save(file)
SoftmaxSave(file) == file \o <<Word("Softmax")>>

\* MLP::save(filename): the layer count, then each layer's save in turn
RECURSIVE SaveFrom(_, _, _)
SaveFrom(file, layers, i) ==
    IF i > Len(layers) THEN file
    ELSE SaveFrom(IF layers[i].name = "Dense" THEN DenseSave(file, layers[i])
                  ELSE SoftmaxSave(file),
                  layers, i + 1)

\* file >> x: the token at the position; a number read from a token that is
\* none is 0.
TokenAt(file, pos) == IF pos <= Len(file) THEN file[pos] ELSE EndOfFile
NumberAt(file, pos) == TokenAt(file, pos).number

\* Dense::Dense(std::ifstream& file), the file read from pos on: the layer and
\* the position after it, or the runtime_error of an unknown activation.
DenseLoad(file, pos) ==
    LET activation == TokenAt(file, pos)
        known == \E a \in 1..Len(ActivationNames) :
                    ActivationNames[a] = <<activation.word>>
        input_size == NumberAt(file, pos + 1)
        output_size == NumberAt(file, pos + 2)
        weights == [TensorOf(<<input_size, output_size>>, 0) EXCEPT
                       !.data = [k \in 1..(input_size * output_size) |->
                                    NumberAt(file, pos + 2 + k)]]
        bias == [TensorOf(<<output_size>>, 0) EXCEPT
                    !.data = [k \in 1..output_size |->
                                 NumberAt(file, pos + 2 + input_size * output_size + k)]]
    IN  IF activation.kind # "word" \/ ~known
        THEN [status |-> "runtime_error", layer |-> <<>>, pos |-> pos]
        ELSE [status |-> "ok",
              layer |-> [name |-> "Dense", activ |-> <<activation.word>>,
                         input_size |-> input_size, output_size |-> output_size,
                         weights |-> weights, bias |-> bias],
              pos |-> pos + 3 + input_size * output_size + output_size]

\* MLP::load(filename) from the layer at pos on, with Layers::load reading the
\* type of each layer: the layers read, or the exception of a layer.
RECURSIVE LoadFrom(_, _, _, _)
LoadFrom(file, pos, remaining, layers) ==
    IF remaining = 0 THEN [status |-> "ok", layers |-> layers]
    ELSE LET type == TokenAt(file, pos)
             dense == DenseLoad(file, pos + 1)
         IN  CASE type.word = "Dense" ->
                    IF dense.status # "ok"
                    THEN [status |-> dense.status, layers |-> layers]
                    ELSE LoadFrom(file, dense.pos, remaining - 1, Append(layers, dense.layer))
               [] type.word = "Softmax" ->
                    LoadFrom(file, pos + 1, remaining - 1, Append(layers, [name |-> "Softmax"]))
               [] OTHER ->
                    LoadFrom(file, pos + 1, remaining - 1, Append(layers, [name |-> "nullptr"]))

\* The layers saved: Softmax layers and Dense layers of two inputs and one
\* output with each activation, holding small values or values of seven digits.
SavedValues == {1, 1234567}
SavedLayers ==
    {[name |-> "Softmax"]} \cup
    {[name |-> "Dense", activ |-> ActivationNames[a], input_size |-> 2, output_size |-> 1,
      weights |-> Scaled(Counting(<<2, 1>>, 0), v), bias |-> Scaled(Counting(<<1>>, 0), v)] :
        a \in 1..Len(ActivationNames), v \in SavedValues}

\* MLP::save(filename)
Save ==
    /\ sv.status = "none"
    /\ sv' = [sv EXCEPT !.status = "saved",
                        !.file = SaveFrom(<<Number(Len(sv.layers))>>, sv.layers, 1)]
    /\ UNCHANGED <<t, last, mm, dl, gd, ad, net, tr, sm, ls, am, par, cu>>

\* std::cout << ... << layers[i]->name right after the push_back: with the
\* null pointer of an unknown type at layers[i] the read is undefined; the
\* process ends there, or the read returns and the loop goes on.
NullAt(layers) == {k \in 1..Len(layers) : layers[k].name = "nullptr"}
LoadOutcomes(file) ==
    LET r == LoadFrom(file, 2, NumberAt(file, 1), <<>>)
        first == CHOOSE k \in NullAt(r.layers) : \A j \in NullAt(r.layers) : k <= j
    IN  {[status |-> IF r.status = "ok" THEN "loaded" ELSE r.status, layers |-> r.layers]}
            \cup IF NullAt(r.layers) = {} THEN {}
                 ELSE {[status |-> "segfault", layers |-> SubSeq(r.layers, 1, first)]}

\* MLP::load(filename) of the file: file >> num_layers, then the layers
Load ==
    /\ sv.status = "saved"
    /\ \E r \in LoadOutcomes(sv.file) :
          sv' = [sv EXCEPT !.status = r.status, !.loaded = r.layers]
    /\ UNCHANGED <<t, last, mm, dl, gd, ad, net, tr, sm, ls, am, par, cu>>

SaveInit ==
    /\ t = NoTensor
    /\ cu = NoHandle
    /\ par = NoLoop
    /\ am = NoArgmax
    /\ last = NoResult
    /\ mm = NoProduct
    /\ dl = Idle(NoLayer)
    /\ gd = NoDescent(<<>>)
    /\ ad = NoOptimizers
    /\ net = NoNetwork
    /\ tr = NoTraining
    /\ sm = NoSoftmax
    /\ ls = NoLoss
    /\ \E n \in 0..MaxLayers : \E layers \in [1..n -> SavedLayers] :
         sv = [NoFile EXCEPT !.layers = layers]

SaveNext == Save \/ Load

SpecSave == SaveInit /\ [][SaveNext]_vars

\* Files written by hand, as tests/test_layers.h:21-23 does: the layer count and
\* then blocks of a Dense layer with each activation name the library has and
\* with one it has not, of a Softmax layer, and of a type that is no layer.
WrittenDense(activ) ==
    DenseSave(<<>>, [name |-> "Dense", activ |-> activ, input_size |-> 2, output_size |-> 1,
                     weights |-> Counting(<<2, 1>>, 0), bias |-> Counting(<<1>>, 0)])
UnknownNames == {<<"gelu">>}
WrittenBlocks ==
    {WrittenDense(ActivationNames[a]) : a \in 1..Len(ActivationNames)}
        \cup {WrittenDense(activ) : activ \in UnknownNames}
        \cup {SoftmaxSave(<<>>), <<Word("Dummy")>>}
RECURSIVE Joined(_, _)
Joined(blocks, k) == IF k > Len(blocks) THEN <<>> ELSE blocks[k] \o Joined(blocks, k + 1)
WrittenFiles ==
    {<<Number(Len(blocks))>> \o Joined(blocks, 1) :
        blocks \in UNION {[1..n -> WrittenBlocks] : n \in 0..MaxLayers}}

LoadInit ==
    /\ t = NoTensor
    /\ cu = NoHandle
    /\ par = NoLoop
    /\ am = NoArgmax
    /\ last = NoResult
    /\ mm = NoProduct
    /\ dl = Idle(NoLayer)
    /\ gd = NoDescent(<<>>)
    /\ ad = NoOptimizers
    /\ net = NoNetwork
    /\ tr = NoTraining
    /\ sm = NoSoftmax
    /\ ls = NoLoss
    /\ \E file \in WrittenFiles : sv = [NoFile EXCEPT !.file = file, !.status = "saved"]

LoadNext == Load

SpecLoad == LoadInit /\ [][LoadNext]_vars

-----------------------------------------------------------------------------
(* LinAlg::argmax (src/linalg.cpp) *)

\* double max_value = -INFINITY, and a.data[index] > max_value
NegInfinity == [finite |-> FALSE, value |-> 0]
Exceeds(x, max_value) == ~max_value.finite \/ x > max_value.value

\* The axis an omitted argument stands for: the default argument of the
\* declaration.
OmittedAxis == 0 - 1

\* The index without the term of the slices before the one of i.
ArgmaxIndexOfFirstSlice(a, axis, i, j) ==
    (i % a.data_size[axis + 2]) + j * a.data_size[axis + 2]

\* int index = i % a.data_size[axis + 1] + j * a.data_size[axis + 1]
\*             + i / a.data_size[axis + 1] * a.data_size[axis];
ArgmaxIndex(a, axis, i, j) ==
    (i % a.data_size[axis + 2]) + j * a.data_size[axis + 2]
        + (i \div a.data_size[axis + 2]) * a.data_size[axis + 1]

\* for (int j = 0; j < a.shape[axis]; j++) { if (a.data[index] > max_value) ... }
RECURSIVE ArgmaxLoop(_, _, _, _, _, _)
ArgmaxLoop(a, axis, i, j, max_index, max_value) ==
    IF j >= a.shape[axis + 1] THEN max_index
    ELSE IF Exceeds(a.data[ArgmaxIndex(a, axis, i, j) + 1], max_value)
    THEN ArgmaxLoop(a, axis, i, j + 1, j,
                    [finite |-> TRUE, value |-> a.data[ArgmaxIndex(a, axis, i, j) + 1]])
    ELSE ArgmaxLoop(a, axis, i, j + 1, max_index, max_value)

\* result_shape: the sizes a.shape[i] with i != axis
ResultShape(a, axis) == SubSeq(a.shape, 1, axis) \o SubSeq(a.shape, axis + 2, Len(a.shape))

\* The axis after if (axis == -1) { axis = a.dim() - 1; }
AxisOf(a, axis) == IF axis = 0 - 1 THEN Dim(a) - 1 ELSE axis

\* LinAlg::argmax(a, axis)
argmax(a, axis) ==
    IF AxisOf(a, axis) < 0 \/ AxisOf(a, axis) >= Dim(a)
    THEN [status |-> "invalid_argument", result |-> NoTensor]
    ELSE [status |-> "ok",
          result |-> [TensorOf(ResultShape(a, AxisOf(a, axis)), 0) EXCEPT
                         !.data = [e \in 1..DataSize(ResultShape(a, AxisOf(a, axis)))[1] |->
                                      ArgmaxLoop(a, AxisOf(a, axis), e - 1, 0, 0, NegInfinity)]]]

\* Tensors of rank 1 to 3 holding rising values, falling values, equal values
\* and values that rise and fall.
Filled(shape, kind) ==
    [TensorOf(shape, 0) EXCEPT
        !.data = [i \in 1..DataSize(shape)[1] |->
                     CASE kind = "rising" -> i
                       [] kind = "falling" -> 0 - i
                       [] kind = "level" -> 0
                       [] OTHER -> (i * i) % 5]]
ArgmaxInputs ==
    {Filled(shape, kind) : shape \in PositiveShapes \cup StackShapes,
                           kind \in {"rising", "falling", "level", "mixed"}}
AxisInputs == (0 - 2)..3

\* LinAlg::argmax(a, axis), and LinAlg::argmax(a) with the axis omitted
Argmax ==
    /\ am.status = "none"
    /\ \E r \in {argmax(am.a, am.axis)} :
          am' = [am EXCEPT !.status = r.status, !.result = r.result]
    /\ UNCHANGED <<t, last, mm, dl, gd, ad, net, tr, sm, ls, sv, par, cu>>

ArgmaxInit ==
    /\ t = NoTensor
    /\ cu = NoHandle
    /\ par = NoLoop
    /\ last = NoResult
    /\ mm = NoProduct
    /\ dl = Idle(NoLayer)
    /\ gd = NoDescent(<<>>)
    /\ ad = NoOptimizers
    /\ net = NoNetwork
    /\ tr = NoTraining
    /\ sm = NoSoftmax
    /\ ls = NoLoss
    /\ sv = NoFile
    /\ \E a \in ArgmaxInputs :
          \/ \E axis \in AxisInputs : am = [NoArgmax EXCEPT !.a = a, !.axis = axis]
          \/ am = [NoArgmax EXCEPT !.a = a, !.axis = OmittedAxis, !.omitted = TRUE]

ArgmaxNext == Argmax

SpecArgmax == ArgmaxInit /\ [][ArgmaxNext]_vars

-----------------------------------------------------------------------------
(* The parallel-for loops of LinAlg::matrix_multiply and of                  *)
(* LinAlg::dense_forward (src/linalg.cpp): one process for each iteration of *)
(* the outer loop, its statement result.data[...] += ... being a load of the *)
(* element and then a store.                                                 *)

\* An index without the row of the iteration.
ResultIndexOfRowZero(i, j, cols) == j

\* result.data[i * b.shape[1] + j], result.data[i * result.shape[1] + j]
ResultIndex(i, j, cols) == i * cols + j

\* The executions of the += statement in one iteration of the outer loop:
\* for k, for j in matrix_multiply, for j in dense_forward.
InnerSteps(loop) ==
    IF loop.op = "matrix_multiply" THEN loop.a.shape[2] * loop.cols ELSE loop.cols

\* The j and the k of the s-th execution, counted from 0.
ColumnOf(loop, s) == s % loop.cols
InnerOf(loop, s) == s \div loop.cols

\* The right-hand side: a.data[i * a.shape[1] + k] * b.data[k * b.shape[1] + j],
\* or bias.data[j]
TermOf(loop, i, s) ==
    IF loop.op = "matrix_multiply"
    THEN loop.a.data[i * loop.a.shape[2] + InnerOf(loop, s) + 1]
            * loop.b.data[InnerOf(loop, s) * loop.cols + ColumnOf(loop, s) + 1]
    ELSE loop.bias.data[ColumnOf(loop, s) + 1]

\* The state on entry to the loop: Tensor result({a.shape[0], b.shape[1]}) in
\* matrix_multiply, Tensor result = matrix_multiply(input, weights) in
\* dense_forward; no iteration has started.
LoopOf(op, a, b, bias) ==
    [op |-> op, a |-> a, b |-> b, bias |-> bias,
     rows |-> a.shape[1], cols |-> b.shape[2],
     data |-> IF op = "matrix_multiply"
              THEN TensorOf(<<a.shape[1], b.shape[2]>>, 0).data
              ELSE matrix_multiply(a, b).result.data,
     pc |-> [i \in 1..a.shape[1] |-> 0],
     reg |-> [i \in 1..a.shape[1] |-> 0],
     reads |-> [i \in 1..a.shape[1] |-> {}],
     writes |-> [i \in 1..a.shape[1] |-> {}]]

\* The matrices of the two loops: every pair of shapes [n, m] and [m, p].
LoopInputs ==
    {LoopOf(op, Counting(<<n, m>>, 0), Counting(<<m, p>>, 1), Counting(<<p>>, 0)) :
        op \in {"matrix_multiply", "dense_forward"},
        n \in 1..MaxDim, m \in 1..MaxDim, p \in 1..MaxDim}

\* Iteration i loads the element its next += adds to.
LoadElement ==
    /\ \E i \in 1..par.rows :
          /\ par.pc[i] < 2 * InnerSteps(par)
          /\ par.pc[i] % 2 = 0
          /\ \E at \in {ResultIndex(i - 1, ColumnOf(par, par.pc[i] \div 2), par.cols)} :
                par' = [par EXCEPT !.pc[i] = @ + 1,
                                   !.reg[i] = par.data[at + 1],
                                   !.reads[i] = @ \cup {at}]
    /\ UNCHANGED <<t, last, mm, dl, gd, ad, net, tr, sm, ls, sv, am, cu>>

\* Iteration i stores the sum of the value it loaded and of the term.
StoreElement ==
    /\ \E i \in 1..par.rows :
          /\ par.pc[i] % 2 = 1
          /\ \E at \in {ResultIndex(i - 1, ColumnOf(par, par.pc[i] \div 2), par.cols)} :
                par' = [par EXCEPT !.pc[i] = @ + 1,
                                   !.data[at + 1] = par.reg[i] + TermOf(par, i - 1, par.pc[i] \div 2),
                                   !.writes[i] = @ \cup {at}]
    /\ UNCHANGED <<t, last, mm, dl, gd, ad, net, tr, sm, ls, sv, am, cu>>

LoopInit ==
    /\ t = NoTensor
    /\ cu = NoHandle
    /\ last = NoResult
    /\ mm = NoProduct
    /\ dl = Idle(NoLayer)
    /\ gd = NoDescent(<<>>)
    /\ ad = NoOptimizers
    /\ net = NoNetwork
    /\ tr = NoTraining
    /\ sm = NoSoftmax
    /\ ls = NoLoss
    /\ sv = NoFile
    /\ am = NoArgmax
    /\ par \in LoopInputs

LoopNext == LoadElement \/ StoreElement

SpecLoop == LoopInit /\ [][LoopNext]_vars

-----------------------------------------------------------------------------
(* Loss::sparse_categorical_crossentropy (src/loss.cpp): label holds one     *)
(* class index for each row of pred.  A float result is kept as the terms it *)
(* is computed from: the flat index of the entry of pred a term reads and    *)
(* the arguments of its log and exp.                                         *)

\* The throw condition of the four functions.
SparseMismatch(label, pred) == label.shape[1] # pred.shape[1]

\* The function with from_logits false: result += -std::log(pred.data[(int)label.data[i]])
SparseFunction(label, pred) ==
    IF SparseMismatch(label, pred)
    THEN [status |-> "invalid_argument", value |-> <<>>]
    ELSE [status |-> "ok",
          value |-> [i \in 1..label.shape[1] |->
                        [entry |-> label.data[i], log |-> pred.data[label.data[i] + 1]]]]

\* The derivative with from_logits false: Tensor result(pred.shape), then
\* result.data[offset + ind] = -1 / pred.data[offset + ind] for each row
SparseDerivative(label, pred) ==
    IF SparseMismatch(label, pred)
    THEN [status |-> "invalid_argument", value |-> <<>>]
    ELSE [status |-> "ok",
          value |-> [p \in 1..Len(pred.data) |->
                        IF \E i \in 0..(label.shape[1] - 1) :
                              i * pred.data_size[2] + label.data[i + 1] = p - 1
                        THEN [set |-> TRUE, over |-> pred.data[p]]
                        ELSE [set |-> FALSE, over |-> 0]]]

\* float max = pred.data[offset]; for (int i = 1; i < label.data_size[1]; i++) ...
SparseMax(label, pred, offset) ==
    MaxLogit(pred, offset, 1, label.data_size[2], pred.data[offset + 1])

\* The arguments of the exponentials of the row at offset
SparseExponents(label, pred, offset) ==
    [k \in 1..pred.data_size[2] |->
        ExponentOf(pred.data[offset + k], SparseMax(label, pred, offset))]

\* The function with from_logits true:
\* result += -(pred.data[offset + (int)label.data[i]] - max) + std::log(denom)
SparseLogitsFunction(label, pred) ==
    IF SparseMismatch(label, pred)
    THEN [status |-> "invalid_argument", value |-> <<>>]
    ELSE [status |-> "ok",
          value |-> [i \in 1..label.shape[1] |->
                        [entry |-> (i - 1) * pred.data_size[2] + label.data[i],
                         linear |-> 0 - SparseExponents(label, pred, (i - 1) * pred.data_size[2])
                                             [label.data[i] + 1],
                         denom |-> SparseExponents(label, pred, (i - 1) * pred.data_size[2])]]]

\* The derivative with from_logits true: exp(pred.data[offset + i] - max) / denom,
\* then result.data[offset + ind] -= 1
SparseLogitsDerivative(label, pred) ==
    IF SparseMismatch(label, pred)
    THEN [status |-> "invalid_argument", value |-> <<>>]
    ELSE [status |-> "ok",
          value |-> [p \in 1..Len(pred.data) |->
                        [exponent |-> SparseExponents(label, pred,
                                          ((p - 1) \div pred.data_size[2]) * pred.data_size[2])
                                          [((p - 1) % pred.data_size[2]) + 1],
                         denom |-> SparseExponents(label, pred,
                                       ((p - 1) \div pred.data_size[2]) * pred.data_size[2]),
                         minus |-> IF \E i \in 0..(label.shape[1] - 1) :
                                         i * pred.data_size[2] + label.data[i + 1] = p - 1
                                   THEN 1 ELSE 0]]]

\* The class indices of n rows of w classes, as Tensor::array gives them.
SparseLabels(n, w) == {ArrayOf(classes) : classes \in [1..n -> 0..(w - 1)]}

\* loss.calc_loss(label, pred)
SparseLoss ==
    /\ ls.loss["pred"].status = "none"
    /\ ls' = [ls EXCEPT !.loss["pred"] =
                 IF ls.fn = "sparse" THEN SparseFunction(ls.label, ls.pred)
                 ELSE SparseLogitsFunction(ls.label, ls.pred)]
    /\ UNCHANGED <<t, last, mm, dl, gd, ad, net, tr, sm, sv, am, par, cu>>

\* loss.calc_derivative(label, pred)
SparseGradient ==
    /\ ls.grad["pred"].status = "none"
    /\ ls' = [ls EXCEPT !.grad["pred"] =
                 IF ls.fn = "sparse" THEN SparseDerivative(ls.label, ls.pred)
                 ELSE SparseLogitsDerivative(ls.label, ls.pred)]
    /\ UNCHANGED <<t, last, mm, dl, gd, ad, net, tr, sm, sv, am, par, cu>>

SparseInit ==
    /\ t = NoTensor
    /\ cu = NoHandle
    /\ last = NoResult
    /\ mm = NoProduct
    /\ dl = Idle(NoLayer)
    /\ gd = NoDescent(<<>>)
    /\ ad = NoOptimizers
    /\ net = NoNetwork
    /\ tr = NoTraining
    /\ sm = NoSoftmax
    /\ sv = NoFile
    /\ am = NoArgmax
    /\ par = NoLoop
    /\ \E n \in 1..MaxBatch, w \in 1..MaxDim, fn \in {"sparse", "sparse_logits"} :
          \E label \in SparseLabels(n, w), pred \in LogitBatches(n, w) :
             ls = [NoLoss EXCEPT !.fn = fn, !.label = label, !.pred = pred]

SparseNext == SparseLoss \/ SparseGradient

SpecSparse == SparseInit /\ [][SparseNext]_vars

-----------------------------------------------------------------------------
(* Repeated Adam::apply_grad calls of one optimizer on one parameter tensor  *)
(* (src/adam.cpp), each call on the parameters the call before left.         *)

\* Hyperparameters with which the moments grow from call to call and yet stay
\* integers: beta1 = beta2 = 2, and alpha = 3 for the quotient by the root.
GrowingHyperparameters == {[alpha |-> 3, beta1 |-> 2, beta2 |-> 2]}

\* Gradients with the same value in every element.
EvenGrads(params) == {Scaled(TensorOf(params.shape, 1), g) : g \in {1, 3, 0 - 3}}

\* The quotients and the roots of the call are floats the model holds: the two
\* bias-corrected moments are integers, the second is a positive perfect
\* square, and its root divides alpha times the first.
HoldsQuotients(opt, params, grads) ==
    /\ Exact(FirstMoment(AdamInit(opt, params), grads),
             1 - Pow(opt.beta1, AdamInit(opt, params).t))
    /\ Exact(SecondMoment(AdamInit(opt, params), grads),
             1 - Pow(opt.beta2, AdamInit(opt, params).t))
    /\ \A i \in 1..Len(grads.data) :
          \E r \in 1..(3 * MaxVal) :
             /\ r * r * (1 - Pow(opt.beta2, AdamInit(opt, params).t))
                   = SecondMoment(AdamInit(opt, params), grads).data[i]
             /\ (opt.alpha * FirstMoment(AdamInit(opt, params), grads).data[i])
                   % (r * (Pow(opt.beta1, AdamInit(opt, params).t) - 1)) = 0

\* The next apply_grad of the optimizer on its parameters.
ApplyGradAgain ==
    /\ ad.calls < MaxSteps
    /\ \E grads \in EvenGrads(ad.result) :
          /\ HoldsQuotients(ad.heap[1], ad.result, grads)
          /\ \E done \in {AdamApplyGrad(ad.heap[1], ad.result, grads)} :
                ad' = [heap |-> <<done.opt>>,
                       before |-> ad.heap, op |-> "apply_grad", target |-> 1,
                       calls |-> ad.calls + 1,
                       params |-> ad.result, grads |-> grads, result |-> done.params]
    /\ UNCHANGED <<t, last, mm, dl, gd, net, tr, sm, ls, sv, am, par, cu>>

StepsInit ==
    /\ t = NoTensor
    /\ cu = NoHandle
    /\ last = NoResult
    /\ mm = NoProduct
    /\ dl = Idle(NoLayer)
    /\ gd = NoDescent(<<>>)
    /\ net = NoNetwork
    /\ tr = NoTraining
    /\ sm = NoSoftmax
    /\ ls = NoLoss
    /\ sv = NoFile
    /\ am = NoArgmax
    /\ par = NoLoop
    /\ \E h \in GrowingHyperparameters, shape \in PositiveShapes, k \in 0..2 :
         ad = [NoOptimizers EXCEPT !.heap = <<AdamOf(h.alpha, h.beta1, h.beta2)>>,
                                   !.result = Counting(shape, k)]

StepsNext == ApplyGradAgain

SpecAdamSteps == StepsInit /\ [][StepsNext]_vars

-----------------------------------------------------------------------------
(* The cuBLAS handle of a build with CUDA (src/tensor.cpp, src/linalg.cpp) *)

MaxOps == 3   \* the most operations made in one run of the process

\* enum Device
Devices == {"DEVICE_CPU", "DEVICE_CUDA"}

\* The Tensor operators with a cuBLAS branch: operator+ and += of two tensors,
\* operator*, *=, / and /= of a tensor and a float.
HandleOperators == {"+", "+=", "*", "*=", "/", "/="}

\* cublasCreate(&handle), succeeding: the global holds a new handle.
cublasCreate(c) == [c EXCEPT !.handle = c.created + 1, !.created = c.created + 1]

\* if (!handle_initialized) { cublasCreate(&handle); handle_initialized = true; }
CreateUnlessInitialized(c) ==
    IF ~c.handle_initialized
    THEN [cublasCreate(c) EXCEPT !.handle_initialized = TRUE]
    ELSE c

\* if (!handle) { cublasCreate(&handle); }
CreateUnlessHandle(c) == IF c.handle = 0 THEN cublasCreate(c) ELSE c

Logged(c, op, device) == [c EXCEPT !.log = Append(c.log, <<op, device>>)]

\* One of the Tensor operators on tensors of one device.
TensorArithmetic ==
    /\ Len(cu.log) < MaxOps
    /\ \E op \in HandleOperators, device \in Devices :
          cu' = Logged(IF device = "DEVICE_CUDA" THEN CreateUnlessInitialized(cu) ELSE cu,
                       op, device)
    /\ UNCHANGED <<t, last, mm, dl, gd, ad, net, tr, sm, ls, sv, am, par>>

\* LinAlg::matrix_multiply: the handle is made ready before the devices are looked at.
HandleMatrixMultiply ==
    /\ Len(cu.log) < MaxOps
    /\ \E device \in Devices :
          cu' = Logged(CreateUnlessInitialized(cu), "matrix_multiply", device)
    /\ UNCHANGED <<t, last, mm, dl, gd, ad, net, tr, sm, ls, sv, am, par>>

\* LinAlg::dense_forward on an input, weights and a bias of one device.
HandleDenseForward ==
    /\ Len(cu.log) < MaxOps
    /\ \E device \in Devices :
          cu' = Logged(IF device = "DEVICE_CUDA" THEN CreateUnlessHandle(cu) ELSE cu,
                       "dense_forward", device)
    /\ UNCHANGED <<t, last, mm, dl, gd, ad, net, tr, sm, ls, sv, am, par>>

HandleInit ==
    /\ t = NoTensor
    /\ last = NoResult
    /\ mm = NoProduct
    /\ dl = Idle(NoLayer)
    /\ gd = NoDescent(<<>>)
    /\ ad = NoOptimizers
    /\ net = NoNetwork
    /\ tr = NoTraining
    /\ sm = NoSoftmax
    /\ ls = NoLoss
    /\ sv = NoFile
    /\ am = NoArgmax
    /\ par = NoLoop
    /\ cu = NoHandle

HandleNext == TensorArithmetic \/ HandleMatrixMultiply \/ HandleDenseForward

SpecHandle == HandleInit /\ [][HandleNext]_vars

-----------------------------------------------------------------------------
(* Tensor::operator== and operator!= (src/tensor.cpp) *)

\* bool Tensor::operator==(const Tensor& other) const
Equals(x, other) ==
    IF x.data_size[1] # other.data_size[1]
    THEN FALSE
    ELSE \A i \in 1..x.data_size[1] : x.data[i] = other.data[i]

\* bool Tensor::operator!=(const Tensor& other) const { return !(*this == other); }
NotEquals(x, other) == ~Equals(x, other)

\* The tensors compared: of every shape, holding 1, 2, ... or 2, 3, ...
ComparedInputs == {Counting(s, k) : s \in PositiveShapes, k \in 0..1}

\* A comparison of the tensor with another; last.status holds the bool returned.
Compare ==
    \E other \in ComparedInputs, op \in {"==", "!="} :
       /\ last' = [NoResult EXCEPT
                      !.op = op, !.before = t, !.other = other,
                      !.status = IF (IF op = "==" THEN Equals(t, other) ELSE NotEquals(t, other))
                                 THEN "true" ELSE "false"]
       /\ UNCHANGED <<t, mm, dl, gd, ad, net, tr, sm, ls, sv, am, par, cu>>

CompareInit ==
    /\ t \in ComparedInputs
    /\ last = NoResult
    /\ mm = NoProduct
    /\ dl = Idle(NoLayer)
    /\ gd = NoDescent(<<>>)
    /\ ad = NoOptimizers
    /\ net = NoNetwork
    /\ tr = NoTraining
    /\ sm = NoSoftmax
    /\ ls = NoLoss
    /\ sv = NoFile
    /\ am = NoArgmax
    /\ par = NoLoop
    /\ cu = NoHandle

CompareNext == Compare

SpecCompare == CompareInit /\ [][CompareNext]_vars

-----------------------------------------------------------------------------
(* MLP::load among the calls that build a network (src/mlp.cpp, src/dense.cpp) *)

\* The values of a pointer that was never assigned: the address of no
\* object (0) or the address of an optimizer object, of which the model takes
\* the newest.
UnsetPointers(heap) == {0, Len(heap)}

\* What Layers::load returns for a block of a file written by MLP::save:
\* new Softmax(file) or new Dense(file), the two pointers of the Dense being
\* whatever its allocation held.
LoadedLayer(heap) ==
    {SoftmaxCtor} \cup {DenseFromFile(w, b) : w \in UnsetPointers(heap), b \in UnsetPointers(heap)}

\* The layer lists MLP::load leaves for a file of n blocks.
LoadedLayers(heap, n) == [1..n -> LoadedLayer(heap)]

\* MLP::load(filename) of a file written by MLP::save: layers.clear(), then one
\* push_back(Layers::load(file)) for each block. The optimizer objects of the
\* layers dropped stay allocated.
LoadModel ==
    /\ net.calls < MaxSteps
    /\ \E n \in 0..MaxLayers : \E layers \in LoadedLayers(net.heap, n) :
          net' = [net EXCEPT !.layers = layers, !.op = "load", !.calls = net.calls + 1]
    /\ UNCHANGED <<t, last, mm, dl, gd, ad, tr, sm, ls, sv, am, par, cu>>

AttachNext == AddLayer \/ AddLoadedLayer \/ SetOptimizer \/ LoadModel

SpecAttach == BuildInit /\ [][AttachNext]_vars

-----------------------------------------------------------------------------
(* Claims about the Tensor *)

AllPositive(shape) == \A i \in 1..Len(shape) : shape[i] > 0

\* The product of shape[i..], the reference the claims compare with.
ProductFrom(shape, i) == Accumulate(SubSeq(shape, i, Len(shape)), 1, 1)

TwoTensorOps ==
    {"+", "+=", "-", "-=", "*", "*=", "/", "/=", "apply_function", "calc_function"}

\* C1: every elementwise operation between two tensors whose shapes are not
\* identical fails with a shape-mismatch error (std::invalid_argument), also when
\* the two shapes hold the same number of elements.  Stated for a left operand
\* of positive dimensions.
C1_MismatchedShapesFail ==
    (last.op \in TwoTensorOps /\ AllPositive(last.before.shape)
        /\ last.before.shape # last.other.shape)
        => last.status = "invalid_argument"

\* C2: a constructed or reshaped tensor has a buffer of product(shape) elements,
\* one stride per dimension, and strides[i] = product(shape[i+1..]).
C2_BufferMatchesShape ==
    Exists(t) =>
        /\ Len(t.data) = ProductFrom(t.shape, 1)
        /\ Len(t.data_size) = Len(t.shape) + 1
        /\ \A i \in 1..Len(t.shape) : t.data_size[i + 1] = ProductFrom(t.shape, i + 1)

\* C3: reshape(newShape) succeeds exactly when product(newShape) = product(shape),
\* and then only shape and strides are rewritten, the flat buffer is the same
\* sequence as before; otherwise it throws std::invalid_argument and the tensor is
\* as before.
C3_ReshapeRewritesOnlyMetadata ==
    last.op = "reshape" =>
        IF ProductFrom(last.shape, 1) = ProductFrom(last.before.shape, 1)
        THEN /\ last.status = "ok"
             /\ t.data = last.before.data
             /\ t.shape = last.shape
             /\ Len(t.data_size) = Len(last.shape) + 1
             /\ \A i \in 0..Len(last.shape) :
                    t.data_size[i + 1] = ProductFrom(last.shape, i + 1)
        ELSE /\ last.status = "invalid_argument"
             /\ t = last.before

\* A tensor of distinct elements was reshaped to another shape.
C3_Witness ==
    /\ last.op = "reshape"
    /\ last.status = "ok"
    /\ last.shape # last.before.shape
    /\ Len(last.shape) = 2
    /\ Len(t.data) = 4
    /\ \A i \in 1..3 : t.data[i] # t.data[i + 1]

RECURSIVE OffsetSum(_, _, _)
OffsetSum(index, strides, j) ==
    IF j > Len(index) THEN 0
    ELSE index[j] * strides[j + 1] + OffsetSum(index, strides, j + 1)

\* C4: at(index) fails with RankMismatch (std::invalid_argument) on a wrong number
\* of components and with IndexOutOfRange (std::out_of_range) when a component is
\* >= its dimension; every other access is at offset sum(index[i] * strides[i]),
\* which lies in [0, product(shape)), negative components included.  Stated for
\* a tensor of positive dimensions.
C4_AccessInsideBuffer ==
    (last.op = "at" /\ AllPositive(t.shape)) =>
        /\ Len(last.index) # Len(t.shape) => last.status = "invalid_argument"
        /\ (Len(last.index) = Len(t.shape)
               /\ \E j \in 1..Len(t.shape) : last.index[j] >= t.shape[j])
              => last.status = "out_of_range"
        /\ last.status = "ok" =>
              /\ last.offset = OffsetSum(last.index, t.data_size, 1)
              /\ last.offset >= 0
              /\ last.offset < ProductFrom(t.shape, 1)

\* C5: constructing a Tensor from a shape with a dimension <= 0 fails with
\* InvalidShape.
C5_NonPositiveShapeRejected ==
    (last.op = "construct" /\ ~AllPositive(last.shape)) => last.status # "ok"

-----------------------------------------------------------------------------
(* Claims about the matrix product *)

\* The element of x at a full index (0-based components), through the strides.
Element(x, index) == x.data[Offset(x, index, 1) + 1]

\* sum over k < inner of left(k) * right(k), the textbook entry of a product
RECURSIVE ReferenceSum(_, _, _, _, _)
ReferenceSum(a, ia, b, ib, k) ==
    IF k < 0 THEN 0
    ELSE Element(a, ia[k + 1]) * Element(b, ib[k + 1]) + ReferenceSum(a, ia, b, ib, k - 1)

C7_StackedProduct ==
    (mm.status # "none" /\ Dim(mm.a) = 3 /\ Dim(mm.b) = 3) =>
        IF mm.a.shape[1] # mm.b.shape[1] \/ mm.a.shape[3] # mm.b.shape[2]
        THEN mm.status = "invalid_argument"
        ELSE /\ mm.status = "ok"
             /\ mm.result.shape = <<mm.a.shape[1], mm.a.shape[2], mm.b.shape[3]>>
             /\ \A r \in 0..(mm.a.shape[1] - 1), i \in 0..(mm.a.shape[2] - 1),
                   j \in 0..(mm.b.shape[3] - 1) :
                   Element(mm.result, <<r, i, j>>) =
                      ReferenceSum(mm.a, [k \in 1..mm.a.shape[3] |-> <<r, i, k - 1>>],
                                   mm.b, [k \in 1..mm.a.shape[3] |-> <<r, k - 1, j>>],
                                   mm.a.shape[3] - 1)

-----------------------------------------------------------------------------
(* Claims about the Dense layer *)

\* sum over k < input_size of x[.., k] * weights[k, j], plus bias[j]
PreActivation(layer, x, ix, j) ==
    ReferenceSum(x, ix, layer.weights,
                 [k \in 1..layer.input_size |-> <<k - 1, j>>],
                 layer.input_size - 1)
        + Element(layer.bias, <<j>>)

\* C8: for a batch x of shape [N, in], N >= 1, Dense forward gives the tensor of
\* shape [N, out] whose entry (r, j) is the activation of
\* sum_k x[r, k] * weights[k, j] + bias[j].
C8_ForwardOfBatch ==
    (/\ dl.op = "apply"
     /\ Dim(dl.input) = 2
     /\ dl.input.shape[2] = dl.layer.input_size) =>
        /\ dl.status = "ok"
        /\ dl.output.shape = <<dl.input.shape[1], dl.layer.output_size>>
        /\ \A r \in 0..(dl.input.shape[1] - 1), j \in 0..(dl.layer.output_size - 1) :
              Element(dl.output, <<r, j>>) =
                 Func(dl.layer.activ,
                      PreActivation(dl.layer, dl.input,
                                    [k \in 1..dl.layer.input_size |-> <<r, k - 1>>], j))

\* activGrad[d][j] = activation'(pre-activation of datapoint d, output j) * dL/dy[d][j]
ActivGrad(layer, input_vals, output_grad, d, j) ==
    Derivative(layer.activ,
               PreActivation(layer, input_vals[d],
                             [k \in 1..layer.input_size |-> <<k - 1>>], j))
        * Element(output_grad[d], <<j>>)

RECURSIVE SumOverBatch(_, _, _, _, _, _)
SumOverBatch(layer, input_vals, output_grad, i, j, d) ==
    IF d = 0 THEN 0
    ELSE (IF i < 0 THEN 1 ELSE Element(input_vals[d], <<i>>))
            * ActivGrad(layer, input_vals, output_grad, d, j)
         + SumOverBatch(layer, input_vals, output_grad, i, j, d - 1)

\* C9: a backward call on a batch of N rows hands the weight optimizer
\* dW = transpose(x) * activGrad / N and the bias optimizer
\* db = columnSum(activGrad) / N, with activGrad = activation'(x * W + b) times
\* dL/dy elementwise, W and b being the parameters before the call, and calls
\* each of the two optimizers exactly once.
C9_GradientsHandedToOptimizers ==
    (dl.op = "backward" /\ dl.status = "ok") =>
        LET n == Len(dl.input_vals)
            layer == dl.before
        IN  /\ dl.w_grad.shape = <<layer.input_size, layer.output_size>>
            /\ dl.b_grad.shape = <<layer.output_size>>
            /\ \A j \in 0..(layer.output_size - 1) :
                  /\ n * Element(dl.b_grad, <<j>>) =
                        SumOverBatch(layer, dl.input_vals, dl.output_grad, 0 - 1, j, n)
                  /\ \A i \in 0..(layer.input_size - 1) :
                        n * Element(dl.w_grad, <<i, j>>) =
                           SumOverBatch(layer, dl.input_vals, dl.output_grad, i, j, n)
            /\ dl.layer.w_opt.applied = layer.w_opt.applied + 1
            /\ dl.layer.b_opt.applied = layer.b_opt.applied + 1

\* A backward call on two datapoints of a relu layer, one with a zero and one
\* with a non-zero derivative, handed over a non-zero weight gradient.
C9_Witness ==
    /\ dl.op = "backward"
    /\ dl.status = "ok"
    /\ Len(dl.input_vals) = 2
    /\ dl.before.activ = "relu"
    /\ dl.before.output_size = 2
    /\ \E d \in 1..2, j \in 0..1 :
          ActivGrad(dl.before, dl.input_vals, dl.output_grad, d, j) = 0
    /\ \E d \in 1..2, j \in 0..1 :
          ActivGrad(dl.before, dl.input_vals, dl.output_grad, d, j) # 0
    /\ \E i \in 1..Len(dl.w_grad.data) : dl.w_grad.data[i] # 0
    /\ dl.layer.w_opt.applied = 1

-----------------------------------------------------------------------------
(* Claims about the gradient-descent step *)

\* The position in the log of the backward call on layer i of L layers.
BackwardAt(L, i) == L + 1 + (L - i)

\* C10: in one grad_descent call on L layers the log of calls is, in this
\* order, apply on layers 0 .. L-1, the loss derivative on the final output,
\* backward on layers L-1 .. 0, each exactly once; no parameter changes before
\* the last apply has returned; layer i's apply and backward both receive the
\* input the forward pass produced for layer i with the parameters from before
\* the call, and backward receives the gradient that layer i+1's backward
\* (for the last layer: the loss derivative) returned.
C10_ForwardThenBackward ==
    LET L == Len(gd.layers)
        log == gd.log
    IN  /\ Len(log) <= 2 * L + 1
        /\ gd.pc = "done" => Len(log) = 2 * L + 1
        /\ gd.pc \in {"idle", "forward"} => gd.layers = gd.start
        /\ \A p \in 1..Len(log) :
              /\ p <= L =>
                    /\ log[p].call = "apply"
                    /\ log[p].layer = p - 1
                    /\ log[p].input = IF p = 1 THEN gd.x_train ELSE log[p - 1].returned
                    /\ log[p].returned = DenseApply(gd.start[p], log[p].input).result
              /\ p = L + 1 =>
                    /\ log[p].call = "calc_derivative"
                    /\ log[p].input = log[L].returned
              /\ p > L + 1 =>
                    /\ log[p].call = "backward"
                    /\ log[p].layer = L - (p - (L + 1))
                    /\ log[p].input = log[log[p].layer + 1].input
                    /\ log[p].grad = log[p - 1].returned
                    /\ gd.layers[log[p].layer + 1].w_opt.applied = 1
        /\ \A i \in 0..(L - 1) :
              (Len(log) < BackwardAt(L, i)) => gd.layers[i + 1] = gd.start[i + 1]

\* A call on two layers has returned after changing the parameters of both,
\* the second layer's forward pass having run on the first layer's output.
C10_Witness ==
    /\ gd.pc = "done"
    /\ Len(gd.layers) = 2
    /\ gd.layers[1].weights # gd.start[1].weights
    /\ gd.layers[2].weights # gd.start[2].weights
    /\ gd.log[2].input # gd.x_train
    /\ gd.log[4].returned # gd.log[3].returned

-----------------------------------------------------------------------------
(* Claims about errors during the gradient-descent step *)

\* The layer whose backward raised; num_layers when the loss derivative raised.
RaisingLayer == IF Len(gd.log) = Len(gd.layers) THEN Len(gd.layers) ELSE gd.i

\* C11: when the loss derivative or the backward of layer k raises, the call
\* ends there: the log holds the backward calls of the layers above k and no
\* other, the layers below k have their parameters of before the call, and the
\* layers above k keep the parameters their backward left.
C11_ErrorLeavesUpdatesApplied ==
    (gd.pc = "thrown" /\ Len(gd.log) >= Len(gd.layers)) =>
        LET L == Len(gd.layers)
            k == RaisingLayer
        IN  /\ Len(gd.log) = L + (IF k = L THEN 0 ELSE 1 + (L - 1 - k))
            /\ \A j \in 0..(L - 1) :
                  /\ j < k =>
                        /\ gd.layers[j + 1] = gd.start[j + 1]
                        /\ \A p \in 1..Len(gd.log) :
                              ~(gd.log[p].call = "backward" /\ gd.log[p].layer = j)
                  /\ j > k =>
                        LET p == BackwardAt(L, j)
                        IN  /\ gd.log[p].call = "backward"
                            /\ gd.log[p].layer = j
                            /\ gd.layers[j + 1] =
                                  DenseBackward(gd.start[j + 1], <<gd.log[p].input>>,
                                                <<gd.log[p].grad>>).layer
                            /\ gd.layers[j + 1].w_opt.applied = 1
                            /\ gd.layers[j + 1].b_opt.applied = 1

\* The backward of the first of two layers raised after the second layer's
\* backward had changed its weights.
C11_Witness ==
    /\ gd.pc = "thrown"
    /\ Len(gd.layers) = 2
    /\ Len(gd.log) = 4
    /\ gd.i = 0
    /\ gd.layers[2].weights # gd.start[2].weights
    /\ gd.layers[1] = gd.start[1]

-----------------------------------------------------------------------------
(* Claims about the Adam optimizer *)

\* C12: apply_grad starts from zero moments of the parameter's shape and t = 1
\* exactly when the moments were allocated for another shape (the first call
\* included), also for another shape of as many elements; otherwise the moments
\* and t carry over.  After the call t is then 2 and the moments have the
\* parameter's shape, or t is one more than before and the moments keep theirs.
C12_ResetOnShapeChange ==
    ad.op = "apply_grad" =>
        LET old == ad.before[ad.target]
            new == ad.heap[ad.target]
        IN  IF old.m.shape # ad.params.shape
            THEN /\ new.t = 2
                 /\ new.m.shape = ad.params.shape
                 /\ new.v.shape = ad.params.shape
            ELSE /\ new.t = old.t + 1
                 /\ new.m.shape = old.m.shape
                 /\ new.v.shape = old.v.shape

\* C13: the object clone returns has the hyperparameters of the cloned one, no
\* accumulated moments and t = 1, whatever the cloned optimizer has applied.
C13_CloneStartsEmpty ==
    ad.op = "clone" =>
        LET old == ad.before[ad.target]
            new == ad.heap[Len(ad.heap)]
        IN  /\ new.alpha = old.alpha /\ new.beta1 = old.beta1 /\ new.beta2 = old.beta2
            /\ new.t = 1
            /\ \A i \in 1..Len(new.m.data) : new.m.data[i] = 0
            /\ \A i \in 1..Len(new.v.data) : new.v.data[i] = 0

-----------------------------------------------------------------------------
(* Claims about the optimizers of an MLP *)

\* The optimizer pointers of the Dense layers, one per parameter tensor.
Attached ==
    {<<i, "weights", net.layers[i].w_opt>> : i \in {j \in 1..Len(net.layers) : net.layers[j].name = "Dense"}}
    \cup {<<i, "bias", net.layers[i].b_opt>> : i \in {j \in 1..Len(net.layers) : net.layers[j].name = "Dense"}}

\* C14: after the construction of an MLP and after every add and set_optimizer,
\* the weights and the bias of every Dense layer each point to an optimizer object
\* that no other parameter tensor points to and that is not an optimizer handed
\* in as the one to clone.
C14_OwnOptimizerPerParameter ==
    /\ \A p \in Attached : p[3] \in 1..Len(net.heap) /\ p[3] \notin net.templates
    /\ \A p, q \in Attached : p[3] = q[3] => p = q

-----------------------------------------------------------------------------
(* Claims about MLP::train *)

\* ceil(n / d) for n >= 0 and d >= 1
CeilDiv(n, d) == (n + d - 1) \div d

\* C15: for every epochs >= 0, N >= 1 and batch_size >= 1 train ends by
\* returning, never by an exception or by the end of the process, and it returns
\* after exactly `epochs` passes; each pass makes ceil(N / batch_size) calls of
\* grad_descent, every batch of batch_size rows but the last, which has the rest.
C15_EpochsPassesOfAllBatches ==
    LET N == tr.x_train.shape[1]
        calls == CeilDiv(N, tr.batch_size)
    IN  /\ tr.pc \notin {"thrown", "crashed"}
        /\ tr.pc = "done" => Len(tr.passes) = tr.epochs
        /\ \A p \in 1..Len(tr.passes) :
              /\ Len(tr.passes[p]) = calls
              /\ \A b \in 1..calls :
                    tr.passes[p][b] = IF b < calls THEN tr.batch_size
                                      ELSE N - (calls - 1) * tr.batch_size

\* Row r (from 0) of a tensor whose first dimension counts the rows.
RowOf(x, r) == SubSeq(x.data, r * x.data_size[2] + 1, (r + 1) * x.data_size[2])

\* C16: in each epoch the index list is a permutation of 0..N-1, the batches made
\* so far hold each index at most once and, once the pass is over, each exactly
\* once; row r of x_batch and of y_batch are the rows of x_train and y_train of
\* the same index; and no copy reads or writes an element outside the training
\* tensors and the batch tensors.
C16_BatchesPartitionTheRows ==
    LET N == tr.x_train.shape[1]
        placed == {<<b, r>> : b \in 1..Len(tr.batches), r \in 1..MaxRows + 1}
        used == {q \in placed : q[2] <= Len(tr.batches[q[1]].rows)}
    IN  tr.pc \in {"batch", "descent", "crashed"} =>
          /\ {tr.indices[k] : k \in 1..N} = 0..(N - 1)
          /\ \A q1, q2 \in used :
                tr.batches[q1[1]].rows[q1[2]] = tr.batches[q2[1]].rows[q2[2]] => q1 = q2
          /\ (tr.pc = "batch" /\ tr.j >= N) =>
                {tr.batches[q[1]].rows[q[2]] : q \in used} = 0..(N - 1)
          /\ \A q \in used :
                LET batch == tr.batches[q[1]]
                    index == batch.rows[q[2]]
                IN  /\ RowOf(batch.x_batch, q[2] - 1) = RowOf(tr.x_train, index)
                    /\ RowOf(batch.y_batch, q[2] - 1) = RowOf(tr.y_train, index)
          /\ tr.stray = 0

-----------------------------------------------------------------------------
(* Claims about the Softmax layer *)

\* The largest element of row i (from 0) of a matrix.
OwnMaximum(x, i) ==
    CHOOSE m \in {x.data[i * x.shape[2] + j] : j \in 1..x.shape[2]} :
        \A j \in 1..x.shape[2] : x.data[i * x.shape[2] + j] <= m

\* C17: Softmax::apply exponentiates, in every row of a batch, each element
\* minus that row's own maximum: every exponent is <= 0, and a row raised by
\* 1000 gets the exponents of the row itself.
C17_EachRowShiftedByItsMaximum ==
    sm.status = "ok" =>
        \A p \in 1..Len(sm.input.data) :
            /\ sm.exponents.data[p] =
                  sm.input.data[p] - OwnMaximum(sm.input, (p - 1) \div sm.input.shape[2])
            /\ sm.exponents.data[p] <= 0

-----------------------------------------------------------------------------
(* Claims about the loss functions *)

\* C18: for crossentropy(true) the loss and the gradient of a batch of logits
\* and of the same logits with a constant added to every entry are the same,
\* the exponentiated values logit - row maximum being the same.
C18_ConstantAddedToLogits ==
    ls.fn = "crossentropy" =>
        /\ (ls.loss["pred"].status = "ok" /\ ls.loss["raised"].status = "ok")
              => ls.loss["pred"].value = ls.loss["raised"].value
        /\ (ls.grad["pred"].status = "ok" /\ ls.grad["raised"].status = "ok")
              => ls.grad["pred"].value = ls.grad["raised"].value

\* A batch of two rows of different logits, raised by 1000, whose loss and
\* gradient have both been computed from both tensors.
C18_Witness ==
    /\ ls.fn = "crossentropy"
    /\ ls.pred.shape = <<2, 2>>
    /\ ls.pred.data = <<0, 1, 1, 0>>
    /\ ls.raised.data = <<1000, 1001, 1001, 1000>>
    /\ \A which \in {"pred", "raised"} :
          ls.loss[which].status = "ok" /\ ls.grad[which].status = "ok"
    /\ ls.grad["raised"].value[1].exponent = 0 - 1

\* C19: every element of the gradient calc_derivative returns is within
\* [-Clip, Clip], whatever the labels and the predictions.
C19_GradientWithinClip ==
    \A which \in {"pred", "raised"} :
        (ls.fn = "mse" /\ ls.grad[which].status = "ok") =>
            \A i \in 1..Len(ls.grad[which].value) :
                /\ ls.grad[which].value[i] <= Clip
                /\ ls.grad[which].value[i] >= 0 - Clip

-----------------------------------------------------------------------------
(* Claims about saving and loading *)

\* C20: loading the file an MLP of Dense and Softmax layers has saved ends
\* without an exception and yields as many layers, of the same types in the
\* same order, each Dense layer with the input_size, output_size, activation
\* name, weights and bias it had, for every activation of the library.
C20_SaveThenLoad ==
    /\ sv.status \notin {"runtime_error"}
    /\ sv.status = "loaded" => sv.loaded = sv.layers

\* C21: a load of a file that holds a layer type other than Dense and Softmax,
\* or a Dense block with an activation name the library has not, ends with an
\* exception, and the layer list of the MLP never holds a null pointer.
Holds(file, words) == \E k \in 1..Len(file) : file[k].kind = "word" /\ <<file[k].word>> \in words
C21_UnknownBlocksFail ==
    sv.status \notin {"none", "saved"} =>
        /\ Holds(sv.file, {<<"Dummy">>} \cup UnknownNames) => sv.status = "runtime_error"
        /\ NullAt(sv.loaded) = {}

\* C22: argmax(a, axis) succeeds for every axis of a tensor of rank 1 to 3, its
\* result has the shape of a without that axis, and each entry is the index
\* along the axis of an element of its slice that no element of the slice
\* exceeds; with the axis omitted the axis collapsed is the last one.
Indices(shape) ==
    {idx \in [1..Len(shape) -> 0..MaxDim] : \A k \in 1..Len(shape) : idx[k] < shape[k]}
Without(seq, k) == SubSeq(seq, 1, k - 1) \o SubSeq(seq, k + 1, Len(seq))
Collapsed == IF am.omitted THEN Len(am.a.shape) ELSE am.axis + 1
C22_OmittedWitness ==
    /\ am.status = "ok"
    /\ am.omitted
    /\ Len(am.a.shape) >= 2
    /\ \E i, j \in 1..Len(am.result.data) : am.result.data[i] # am.result.data[j]

\* sum over j < output_size of weights[i, j] * activGrad[d][j]
RECURSIVE InputGradient(_, _, _, _, _, _)
InputGradient(layer, input_vals, output_grad, d, i, j) ==
    IF j < 0 THEN 0
    ELSE Element(layer.weights, <<i, j>>) * ActivGrad(layer, input_vals, output_grad, d, j)
         + InputGradient(layer, input_vals, output_grad, d, i, j - 1)

\* C23: a backward call returns for each datapoint d the gradient
\* activGrad[d] * transpose(weights) computed with the weights and the bias of
\* before the call, not divided by the batch size, although the same call
\* updates the weights.
C23_ReturnedGradientFromEntryWeights ==
    (dl.op = "backward" /\ dl.status = "ok") =>
        /\ Len(dl.outputs) = Len(dl.input_vals)
        /\ \A d \in 1..Len(dl.outputs) :
              /\ dl.outputs[d].shape = <<dl.before.input_size>>
              /\ \A i \in 0..(dl.before.input_size - 1) :
                    Element(dl.outputs[d], <<i>>) =
                       InputGradient(dl.before, dl.input_vals, dl.output_grad, d, i,
                                     dl.before.output_size - 1)

\* A backward call on two datapoints that changed the weights and returned a
\* gradient the changed weights would not give.
C23_Witness ==
    /\ dl.op = "backward"
    /\ dl.status = "ok"
    /\ Len(dl.input_vals) = 2
    /\ dl.layer.weights # dl.before.weights
    /\ \E d \in 1..2, i \in 0..(dl.before.input_size - 1) :
          /\ Element(dl.outputs[d], <<i>>) # 0
          /\ Element(dl.outputs[d], <<i>>) #
                InputGradient(dl.layer, dl.input_vals, dl.output_grad, d, i,
                              dl.before.output_size - 1)

-----------------------------------------------------------------------------
(* Claims about the parallel loops *)

\* The buffer the loop leaves when its iterations run one after the other.
SequentialData ==
    IF par.op = "matrix_multiply" THEN MatrixMatrix(par.a, par.b).data
    ELSE [e \in 1..(par.rows * par.cols) |->
             MatrixMatrix(par.a, par.b).data[e] + par.bias.data[((e - 1) % par.cols) + 1]]

\* C24: in the parallel loops of matrix_multiply and of dense_forward no two
\* iterations write one element and no iteration reads an element another
\* iteration writes; when all iterations have ended each element was written
\* by exactly one of them and the buffer is the one sequential execution
\* leaves, whatever the interleaving.
C24_IterationsShareNoElement ==
    /\ \A i, other \in 1..par.rows :
          i # other =>
             /\ par.writes[i] \cap par.writes[other] = {}
             /\ par.reads[i] \cap par.writes[other] = {}
    /\ (\A i \in 1..par.rows : par.pc[i] = 2 * InnerSteps(par)) =>
          /\ par.data = SequentialData
          /\ \A e \in 0..(par.rows * par.cols - 1) :
                \E i \in 1..par.rows :
                   /\ e \in par.writes[i]
                   /\ \A other \in 1..par.rows : e \in par.writes[other] => other = i

\* Two iterations of the matrix product are under way at once: one has loaded
\* an element and not yet stored it, the other has stored and has more to do.
C24_Witness ==
    /\ par.op = "matrix_multiply"
    /\ \E i, other \in 1..par.rows :
          /\ i # other
          /\ par.pc[i] % 2 = 1
          /\ par.pc[i] > 2
          /\ par.pc[other] > 1
          /\ par.pc[other] < 2 * InnerSteps(par)

-----------------------------------------------------------------------------
(* Claims about the sparse categorical crossentropy *)

\* C25: with from_logits the loss and the derivative exponentiate the logits
\* of row i less the maximum of row i: every argument of exp is the logit less
\* its row's maximum, and none is positive.
C25_SparseRowShiftedByItsMaximum ==
    ls.fn = "sparse_logits" =>
        /\ ls.loss["pred"].status = "ok" =>
              \A i \in 1..Len(ls.loss["pred"].value), k \in 1..ls.pred.shape[2] :
                 /\ ls.loss["pred"].value[i].denom[k] =
                       ls.pred.data[(i - 1) * ls.pred.shape[2] + k] - OwnMaximum(ls.pred, i - 1)
                 /\ ls.loss["pred"].value[i].denom[k] <= 0
        /\ ls.grad["pred"].status = "ok" =>
              \A p \in 1..Len(ls.grad["pred"].value) :
                 /\ ls.grad["pred"].value[p].exponent =
                       ls.pred.data[p] - OwnMaximum(ls.pred, (p - 1) \div ls.pred.shape[2])
                 /\ ls.grad["pred"].value[p].exponent <= 0

\* The flat index of pred[i][label[i]], rows counted from 0.
LabelEntry(i) == i * ls.pred.shape[2] + ls.label.data[i + 1]

\* C26: with either from_logits setting the term of row i of the loss reads
\* pred[i][label[i]], and the derivative has its label-specific term at
\* [i][label[i]] and nowhere else.
C26_SparseIndexesOwnRow ==
    ls.fn \in {"sparse", "sparse_logits"} =>
        /\ ls.loss["pred"].status = "ok" =>
              /\ Len(ls.loss["pred"].value) = ls.pred.shape[1]
              /\ \A i \in 0..(ls.pred.shape[1] - 1) :
                    ls.loss["pred"].value[i + 1].entry = LabelEntry(i)
        /\ ls.grad["pred"].status = "ok" =>
              \A p \in 1..Len(ls.grad["pred"].value) :
                 (IF ls.fn = "sparse" THEN ls.grad["pred"].value[p].set
                  ELSE ls.grad["pred"].value[p].minus = 1)
                    <=> (\E i \in 0..(ls.pred.shape[1] - 1) : LabelEntry(i) = p - 1)

\* C27: the k-th apply_grad of an Adam instance on parameters of one shape
\* adds the gradient to the moments the calls before left (zero before the
\* first), corrects them with 1 - beta^k, and leaves t = k + 1.
C27_StepCountsCalls ==
    ad.op = "apply_grad" =>
        LET k == ad.calls
            old == ad.before[1]
            new == ad.heap[1]
        IN  /\ new.t = k + 1
            /\ \A i \in 1..Len(ad.params.data) :
                  /\ new.m.data[i] = new.beta1 * (IF k = 1 THEN 0 ELSE old.m.data[i])
                                        + (1 - new.beta1) * ad.grads.data[i]
                  /\ new.v.data[i] = new.beta2 * (IF k = 1 THEN 0 ELSE old.v.data[i])
                                        + (1 - new.beta2) * ad.grads.data[i] * ad.grads.data[i]
                  /\ \E m_hat \in (0 - 3 * MaxVal)..(3 * MaxVal), root \in 1..(3 * MaxVal) :
                        /\ m_hat * (1 - Pow(new.beta1, k)) = new.m.data[i]
                        /\ root * root * (1 - Pow(new.beta2, k)) = new.v.data[i]
                        /\ (ad.params.data[i] - ad.result.data[i]) * root = new.alpha * m_hat

\* A second call with another gradient than the first: the moments hold both.
C27_Witness ==
    /\ ad.op = "apply_grad"
    /\ ad.calls = 2
    /\ ad.heap[1].t = 3
    /\ ad.grads.data[1] = 0 - 3
    /\ ad.heap[1].m.data[1] = 0 - 3
    /\ ad.before[1].m.data[1] = 0 - 3

\* C28: over every sequence of Tensor operators, matrix_multiply and
\* dense_forward calls, cublasCreate runs at most once, and once a handle
\* exists the flag says so.
C28_HandleCreatedOnce ==
    /\ cu.created <= 1
    /\ cu.created = 1 => cu.handle_initialized

\* C29: == returns true only for tensors of identical shapes whose elements
\* are all equal, and != returns the negation of ==.
C29_EqualMeansSameShapeAndElements ==
    LET same == t.shape = last.other.shape /\ t.data = last.other.data
    IN  /\ last.op = "==" => (last.status = "true" <=> same)
        /\ last.op = "!=" => (last.status = "true" <=> ~same)

\* C30: after the construction of an MLP and after every add, set_optimizer and
\* load, the weight optimizer and the bias optimizer of every Dense layer are
\* optimizer objects, so grad_descent calls apply_grad on objects only.
C30_EveryDenseHasOptimizers ==
    \A i \in 1..Len(net.layers) :
        net.layers[i].name = "Dense" =>
            /\ net.layers[i].w_opt \in 1..Len(net.heap)
            /\ net.layers[i].b_opt \in 1..Len(net.heap)

=============================================================================
